---- MODULE Spec2Model ----
(***************************************************************************)
(* Model of ilias-tests: the authenticating action layer                   *)
(* (IliasInteractor), the create workflow (run_create / add_test), the     *)
(* glob resolver (ilias_glob_regex), the form payload synthesis of         *)
(* configure_test / add_question, the alert check of a response, the       *)
(* serialization of questions and the manual grading in markdown.          *)
(***************************************************************************)
EXTENDS Integers, Sequences, FiniteSets, TLC

(***************************************************************************)
(* Bounds of the model.                                                    *)
(***************************************************************************)
\* number of logical requests in flight at once in the action-layer model
NumRequests == 2
\* number of environment faults (bad responses, exceptions, expiries) in a run
MaxFaults == 2

(***************************************************************************)
(* Program constants.                                                      *)
(***************************************************************************)
\* @_iorepeat(attempts=2, ...) on _get_soup/_post_authenticated/_post_authenticated_json
IoRepeatAttempts == 2

Procs == 1..NumRequests
NoProc == 0

\* the four request verbs of IliasInteractor
Kinds == {"get_soup", "post_authenticated", "post_authenticated_json", "download_file"}
\* the verbs wrapped by @_iorepeat
Repeated == {"get_soup", "post_authenticated", "post_authenticated_json"}

\* what the server answers to one HTTP attempt
Responses == [exc : BOOLEAN, status_ok : BOOLEAN, pred_ok : BOOLEAN]

\* CrawlError messages and warnings of the action layer
ErrNone == "none"
ErrIO == "Error in I/O Operation"
ErrUnexpected == "unexpected exception"
ErrLogin == "login failed"
WarnNone == "none"
WarnFailed == "Request failed"
WarnValidation == "Request failed extended validation"

VARIABLES
    \* IliasInteractor fields
    authentication_id,   \* self._authentication_id
    authentication_lock, \* holder of self._authentication_lock, NoProc when free
    request_count,       \* self._request_count
    cookie_file,         \* generation whose cookies the cookie file holds
    \* the remote side and the environment
    session_valid,       \* does the server accept the cookie jar's session
    faults,              \* environment faults used so far
    logins,              \* login flows (_authenticate) started so far
    cookie_saves,        \* calls of _save_cookies so far
    closed,              \* has __aexit__ run
    \* one logical request per process
    kind, pc, auth_id, attempts, total, round, surface, warn, err,
    \* the glob resolver: its inputs and what it returned
    tree,                \* the remote hierarchy: page url -> child elements
    regex,               \* the replicate pattern
    glob_pc,             \* "start" before ilias_glob_regex ran, "done" after
    glob_result,         \* [error, matching, found, fetched] of ilias_glob_regex
    \* one form submission: the scraped page, the call and what was sent
    form_page,           \* the page whose form is scraped for extras
    form_call,           \* the verb and its arguments
    form_pc,             \* "start" before the submission, "posted" after
    payload,             \* the fields of the aiohttp.FormData, in order
    \* one run of the create workflow
    run_pc,              \* where run_create is
    test_filter_regex,   \* --tests
    tests,               \* the tests of the spec that passed the filter
    folder_index,        \* the loop over target_folders
    test_index,          \* the loop over tests
    step_index,          \* the next interactor call of add_test
    pending,             \* logical requests the awaited call has yet to send
    calls,               \* the interactor calls made so far
    run_error,           \* the error main logged
    \* one response checked for alerts
    alert_page,          \* the role/class elements of the page of the response
    alert_status_ok,     \* request_succeeded(response)
    alert_pc,            \* "start" before do_request, "done" after
    alert_result,        \* [success, accepted, warn] of the check
    \* one question taken through serialize and deserialize
    round_question,      \* the question object
    round_pc,            \* "start", "serialized", "deserialized"
    round_serialized,    \* question.serialize()
    round_restored,      \* TestQuestion.deserialize of it
    \* the manual grading of one test written to markdown and uploaded from it
    grade_results,       \* the slurped list[ManualGradingParticipantResults]
    grade_pc,            \* where slurp_grading_state_to_md / upload_grading_state are
    grade_folder,        \* the *.md files of the folder: file name -> content
    grade_loaded,        \* results_by_mail of upload_grading_state
    grade_calls,         \* the interactor calls upload_grading_state made
    grade_error,         \* the exception upload_grading_state raised
    \* the questions tab of one test: its listing read and its questions reordered
    order_page,          \* the questions tab: its url, table rows and alerts
    title_order,         \* the titles given to reorder_questions
    order_pc,            \* "start", "listed" or "reordered"
    order_listing,       \* what get_test_question_listing returned
    order_posts,         \* the data of the save-order POSTs sent
    order_error,         \* the exception raised: [error, message]
    \* the blocks of one page design added to the design page of a new question
    design_blocks,       \* the list[PageDesignBlock] given to design_page_add_blocks
    design_pc,           \* "loop", "done" or "failed"
    design_index,        \* how many blocks the loop is through
    current_id,          \* current_id of design_page_add_blocks
    design_server,       \* the components of the page on the server, in page order
    design_inserts,      \* the insertions requested: block index and after-id
    design_error,        \* the exception design_page_add_blocks raised
    \* the preview page of one question read for its design blocks
    preview_page,        \* the preview form and its children
    preview_pc,          \* "start" before get_test_question_design_blocks, "done" after
    preview_result,      \* [exception, blocks, downloads] of the call
    \* the extra values of one form scraped as a set of ExtraFormData
    extras_form,         \* the input, textarea and select elements of the form
    extras_pc,           \* "start" before _get_extra_form_values, "done" after
    extras_result,       \* the set[ExtraFormData] returned
    \* one run of the configure command on the settings tab of a test
    settings_page,       \* the settings form: label -> the element the label is for
    args_publish,        \* args.publish
    configure_pc,        \* "start" before run_configure, "posted" after
    configure_payload    \* the form data configure_test posted

authVars == <<authentication_id, authentication_lock, request_count, cookie_file,
              session_valid, faults, logins, cookie_saves, closed>>
reqVars == <<kind, pc, auth_id, attempts, total, round, surface, warn, err>>
globVars == <<tree, regex, glob_pc, glob_result>>
formVars == <<form_page, form_call, form_pc, payload>>
createVars == <<run_pc, test_filter_regex, tests, folder_index, test_index, step_index,
                pending, calls, run_error>>
\* what the action layer leaves alone
alertVars == <<alert_page, alert_status_ok, alert_pc, alert_result>>
roundVars == <<round_question, round_pc, round_serialized, round_restored>>
gradeVars == <<grade_results, grade_pc, grade_folder, grade_loaded, grade_calls,
               grade_error>>
orderVars == <<order_page, title_order, order_pc, order_listing, order_posts, order_error>>
\* the scraped pages of the later sections
designVars == <<design_blocks, design_pc, design_index, current_id, design_server,
                design_inserts, design_error>>
previewVars == <<preview_page, preview_pc, preview_result>>
extrasVars == <<extras_form, extras_pc, extras_result>>
configureVars == <<settings_page, args_publish, configure_pc, configure_payload>>
pageVars == <<orderVars, designVars, previewVars, extrasVars, configureVars>>
laterVars == <<alertVars, roundVars, gradeVars, pageVars>>
\* what the action layer leaves alone
otherVars == <<globVars, formVars, createVars, laterVars>>
vars == <<authVars, reqVars, globVars, formVars, createVars, laterVars>>

(***************************************************************************)
(* The glob resolver: automation.py.  Strings are sequences of characters. *)
(***************************************************************************)
\* number of segments of the patterns tried
MaxSegments == 3

\* _strip_first_path_segment that splits at the last "/" (rfind for find)
strip_last_path_segment(path_string) ==
    IF \E i \in 1..Len(path_string) : path_string[i] = "/"
    THEN LET slash_index == CHOOSE i \in 1..Len(path_string) :
                                /\ path_string[i] = "/"
                                /\ \A j \in (i + 1)..Len(path_string) : path_string[j] # "/"
         IN  <<SubSeq(path_string, 1, slash_index - 1),
               SubSeq(path_string, slash_index + 1, Len(path_string))>>
    ELSE <<path_string, <<>>>>

\* def _strip_first_path_segment(path_string): the part before the first "/" and the
\* part after it; no part after it (None) when there is no "/"
strip_first_path_segment(path_string) ==
    IF \E i \in 1..Len(path_string) : path_string[i] = "/"
    THEN LET slash_index == CHOOSE i \in 1..Len(path_string) :
                                /\ path_string[i] = "/"
                                /\ \A j \in 1..(i - 1) : path_string[j] # "/"
         IN  <<SubSeq(path_string, 1, slash_index - 1),
               SubSeq(path_string, slash_index + 1, Len(path_string))>>
    ELSE <<path_string, <<>>>>

\* re.compile raises re.error ("nothing to repeat", "multiple repeat") for a "*"
\* that has nothing to repeat
re_error(pattern) ==
    \E i \in 1..Len(pattern) :
        pattern[i] = "*" /\ (i = 1 \/ pattern[i - 1] = "*")

\* one pattern character against one character: "." matches any character
re_char(p, c) == p = "." \/ p = c

\* re.fullmatch(pattern, string) is not None, for patterns of literals, "." and "*"
RECURSIVE re_fullmatch(_, _)
re_fullmatch(pattern, string) ==
    IF pattern = <<>> THEN string = <<>>
    ELSE IF Len(pattern) >= 2 /\ pattern[2] = "*"
    THEN \/ re_fullmatch(SubSeq(pattern, 3, Len(pattern)), string)
         \/ /\ string # <<>>
            /\ re_char(pattern[1], string[1])
            /\ re_fullmatch(pattern, Tail(string))
    ELSE /\ string # <<>>
         /\ re_char(pattern[1], string[1])
         /\ re_fullmatch(Tail(pattern), Tail(string))

\* filter_with_regex with re.search for re.fullmatch: a match anywhere in the name
filter_with_search(element, pattern) ==
    \E i \in 1..(Len(element) + 1) : \E j \in (i - 1)..Len(element) :
        re_fullmatch(pattern, SubSeq(element, i, j))

\* def filter_with_regex(element, regex): re.fullmatch(regex, element) is not None
filter_with_regex(element, pattern) == re_fullmatch(pattern, element)

\* _matches_regex_part that tests the name against the whole remaining pattern
matches_regex_rest(to_test, glob_regex) == filter_with_regex(to_test, glob_regex)

\* def _matches_regex_part(to_test, glob_regex)
matches_regex_part(to_test, glob_regex) ==
    filter_with_regex(to_test, strip_first_path_segment(glob_regex)[1])

\* str.strip(): without leading and trailing whitespace
RECURSIVE strip(_)
strip(name) ==
    IF name = <<>> THEN name
    ELSE IF name[1] \in {" ", "\n"} THEN strip(Tail(name))
    ELSE IF name[Len(name)] \in {" ", "\n"} THEN strip(SubSeq(name, 1, Len(name) - 1))
    ELSE name

\* def _sanitize_path_name(name): name.replace("/", "-").replace("\\", "-").strip()
sanitize_path_name(name) ==
    strip([i \in 1..Len(name) |-> IF name[i] \in {"/", "\\"} THEN "-" ELSE name[i]])

\* PurePath: root_path / segment; an empty segment and "." add no part
path_join(root_path, segment) ==
    IF segment = <<>> \/ segment = <<".">> THEN root_path ELSE Append(root_path, segment)

\* what _find_matching_elements gives: an exception (error) or the matches, and the
\* pages it fetched with select_page on the way
MatchResult(error, matching, fetched) ==
    [error |-> error, matching |-> matching, fetched |-> fetched]

RECURSIVE find_matching_elements(_, _, _, _)
RECURSIVE find_in_children(_, _, _, _, _)

\* the loop of _find_matching_elements over the kept children: fetch the child's
\* page, descend with the next pattern, extend matching
find_in_children(t, kept, root_path, next_glob, acc) ==
    IF kept = <<>> THEN acc
    ELSE LET child == Head(kept)
             child_path == path_join(root_path, sanitize_path_name(child.name))
             sub == find_matching_elements(t, child.url, child_path, next_glob)
             fetched == acc.fetched \o <<child.url>> \o sub.fetched
         IN  IF sub.error THEN MatchResult(TRUE, <<>>, fetched)
             ELSE find_in_children(t, Tail(kept), root_path, next_glob,
                                   MatchResult(FALSE, acc.matching \o sub.matching, fetched))

\* async def _find_matching_elements(interactor, root, root_path, regex)
find_matching_elements(t, root, root_path, pattern) ==
    IF pattern = <<>> THEN MatchResult(FALSE, <<[path |-> root_path, url |-> root]>>, <<>>)
    ELSE IF t[root] # <<>> /\ re_error(strip_first_path_segment(pattern)[1])
    THEN MatchResult(TRUE, <<>>, <<>>)
    ELSE LET next_glob == strip_first_path_segment(pattern)[2]
             kept == SelectSeq(t[root], LAMBDA child : matches_regex_part(child.name, pattern))
         IN  find_in_children(t, kept, root_path, next_glob, MatchResult(FALSE, <<>>, <<>>))

\* urls_to_page[page.url()] = (path, page) for each match, then list(values()): one
\* entry per url, in the order the urls first appear, each with the last path set
urls_to_page(found) ==
    LET first == SelectSeq([i \in 1..Len(found) |-> i],
                           LAMBDA i : \A j \in 1..(i - 1) : found[j].url # found[i].url)
        last(u) == CHOOSE i \in 1..Len(found) :
                       /\ found[i].url = u
                       /\ \A j \in (i + 1)..Len(found) : found[j].url # u
    IN  [k \in 1..Len(first) |-> found[last(found[first[k]].url)]]

\* the result of ilias_glob_regex before it ran
NoResult == [error |-> FALSE, matching |-> <<>>, found |-> <<>>, fetched |-> <<>>]

\* ilias_glob_regex that returns every match, also of a url it already has
ilias_glob_regex_all(t, root, pattern) ==
    LET res == find_matching_elements(t, root, <<>>, pattern)
    IN  [error |-> res.error, matching |-> res.matching,
         found |-> res.matching, fetched |-> res.fetched]

\* async def ilias_glob_regex(interactor, root, regex)
ilias_glob_regex(t, root, pattern) ==
    LET res == find_matching_elements(t, root, <<>>, pattern)
    IN  [error |-> res.error,
         matching |-> IF res.error THEN <<>> ELSE urls_to_page(res.matching),
         found |-> res.matching, fetched |-> res.fetched]

(***************************************************************************)
(* Remote hierarchies and patterns the resolver is run on.                 *)
(***************************************************************************)
Child(name, url) == [name |-> name, url |-> url]
RootUrl == "root"

\* a folder without children
TreeEmpty == [u \in {RootUrl} |-> <<>>]

\* ./foo/{hey,baz}/bar, the tree of the comment in _find_matching_elements
TreeFoo ==
    (RootUrl :> <<Child(<<"f","o","o">>, "foo")>>)
    @@ ("foo" :> <<Child(<<"h","e","y">>, "hey"), Child(<<"b","a","z">>, "baz")>>)
    @@ ("hey" :> <<Child(<<"b","a","r">>, "hey_bar")>>)
    @@ ("baz" :> <<Child(<<"b","a","r">>, "baz_bar")>>)
    @@ ("hey_bar" :> <<>>)
    @@ ("baz_bar" :> <<>>)

\* one node linked from two folders and twice from one of them
TreeAlias ==
    (RootUrl :> <<Child(<<"a">>, "u1"), Child(<<"b">>, "u2"), Child(<<"a">>, "u2")>>)
    @@ ("u1" :> <<Child(<<"a">>, "u3"), Child(<<"b">>, "u4")>>)
    @@ ("u2" :> <<Child(<<"a">>, "u3"), Child(<<"b","a","r">>, "u3")>>)
    @@ ("u3" :> <<Child(<<"a">>, "u4")>>)
    @@ ("u4" :> <<>>)

\* links back to the root and to the folder itself
TreeCycle ==
    (RootUrl :> <<Child(<<"a">>, "u1"), Child(<<"f","o","o">>, RootUrl)>>)
    @@ ("u1" :> <<Child(<<"a">>, RootUrl), Child(<<"b">>, "u1"), Child(<<"b","a","r">>, "u2")>>)
    @@ ("u2" :> <<>>)

\* names with path separators, surrounding blanks and dots
TreeNames ==
    (RootUrl :> <<Child(<<"a","/","b">>, "u1"), Child(<<" ","a"," ">>, "u2"),
                  Child(<<".">>, "u3"), Child(<<"a","\\">>, "u4"), Child(<<"f","o","o","b","a","r">>, "u5")>>)
    @@ ("u1" :> <<Child(<<"b","a","r">>, "u6")>>)
    @@ ("u2" :> <<Child(<<"b","a","r">>, "u6")>>)
    @@ ("u3" :> <<Child(<<"a">>, "u6")>>)
    @@ ("u4" :> <<>>)
    @@ ("u5" :> <<Child(<<"f","o","o">>, "u6")>>)
    @@ ("u6" :> <<>>)

\* a chain deeper than the longest pattern
TreeChain ==
    (RootUrl :> <<Child(<<"a">>, "c1")>>)
    @@ ("c1" :> <<Child(<<"a">>, "c2"), Child(<<"b">>, "c2")>>)
    @@ ("c2" :> <<Child(<<"a">>, "c3")>>)
    @@ ("c3" :> <<Child(<<"a">>, "c4")>>)
    @@ ("c4" :> <<Child(<<"a">>, "c5")>>)
    @@ ("c5" :> <<>>)

Trees == {TreeEmpty, TreeFoo, TreeAlias, TreeCycle, TreeNames, TreeChain}

\* the segments patterns are made of
Segments == {<<"*">>, <<".","*">>, <<"f","o","o">>, <<"b","a","r">>, <<"a">>}

\* segments joined by "/"
RECURSIVE join_segments(_)
join_segments(segs) ==
    IF segs = <<>> THEN <<>>
    ELSE IF Len(segs) = 1 THEN segs[1]
    ELSE segs[1] \o <<"/">> \o join_segments(Tail(segs))

\* create.add_argument("--replicate", ..., default=".*")
DefaultReplicate == <<".", "*">>

\* every pattern of at most MaxSegments segments, the empty pattern included
Patterns ==
    {join_segments(segs) : segs \in UNION {[1..k -> Segments] : k \in 0..MaxSegments}}

(***************************************************************************)
(* Form payloads: configure_test and add_question of ilias_action.py, fed  *)
(* by the scraped form of ilias_html.py.  A dict is a sequence of items    *)
(* with distinct names, in insertion order.                                *)
(***************************************************************************)
\* number of input/select elements of a scraped form
MaxFields == 2
\* number of answers of a single choice question
MaxAnswers == 1

\* a str value, a pathlib.Path value, and the part
\* add_field(value=b"", content_type="application/octet-stream", filename="")
Str(s) == [type |-> "str", text |-> s]
PathValue(s) == [type |-> "path", text |-> s]
EmptyFile == [type |-> "file", text |-> ""]
Item(k, v) == [name |-> k, value |-> v]

DictKeys(d) == {d[i].name : i \in 1..Len(d)}
DictGet(d, k) == d[CHOOSE i \in 1..Len(d) : d[i].name = k].value
\* d[k] = v: an existing key keeps its position
DictSet(d, k, v) ==
    IF k \in DictKeys(d)
    THEN [i \in 1..Len(d) |-> IF d[i].name = k THEN Item(k, v) ELSE d[i]]
    ELSE Append(d, Item(k, v))
\* {**d, **e}
RECURSIVE DictUpdate(_, _)
DictUpdate(d, e) ==
    IF e = <<>> THEN d
    ELSE DictUpdate(DictSet(d, e[1].name, e[1].value), Tail(e))

\* the names and values of the elements of a scraped form
ScrapedNames == {"title", "choice[image][0]", "tile_image", "activation_type"}
ScrapedValues == {"scraped 1", "scraped 2"}
\* <input name= value= [required]> and <select name=> with its selected option
FormElements ==
    {e \in [tag : {"input", "select"}, required : BOOLEAN,
            name : ScrapedNames, value : ScrapedValues] :
        e.tag = "select" => ~e.required}
\* a page with one form and its ilfilehash
Pages ==
    [elements : UNION {[1..n -> FormElements] : n \in 0..MaxFields},
     ilfilehash : {"hash"}]
NoPage == [elements |-> <<>>, ilfilehash |-> "hash"]

\* _get_extra_form_values: the required inputs, then the selects
get_extra_form_values(form) ==
    LET IsRequiredInput(e) == e.tag = "input" /\ e.required
        IsSelect(e) == e.tag = "select"
        Values(es) == [i \in 1..Len(es) |-> Item(es[i].name, Str(es[i].value))]
    IN DictUpdate(DictUpdate(<<>>, Values(SelectSeq(form, IsRequiredInput))),
                  Values(SelectSeq(form, IsSelect)))

\* get_test_settings_change_data: the extras of the form and its ilfilehash
get_test_settings_change_data(page) ==
    DictSet(get_extra_form_values(page.elements), "ilfilehash", Str(page.ilfilehash))

\* get_test_question_finalize_data: the extras of the form of the save button
get_test_question_finalize_data(page) == get_extra_form_values(page.elements)

\* datetime values and _format_time: strftime("%d.%m.%Y %H:%M"), "" for None
NoTime == [day |-> 0, month |-> 0, year |-> 0, hour |-> 0, minute |-> 0]
SomeTime == [day |-> 6, month |-> 11, year |-> 2026, hour |-> 9, minute |-> 30]
Pad2(n) == IF n < 10 THEN "0" \o ToString(n) ELSE ToString(n)
format_time(time) ==
    IF time = NoTime THEN ""
    ELSE Pad2(time.day) \o "." \o Pad2(time.month) \o "." \o ToString(time.year)
         \o " " \o Pad2(time.hour) \o ":" \o Pad2(time.minute)

\* the arguments of configure_test
ConfigArgs ==
    [title : {"Exam"}, description : {"An exam"}, intro_text : {"<p>intro</p>"},
     starting_time : {SomeTime}, ending_time : {NoTime},
     number_of_tries : {3}, online : BOOLEAN]
NoConfig ==
    [title |-> "", description |-> "", intro_text |-> "", starting_time |-> NoTime,
     ending_time |-> NoTime, number_of_tries |-> 0, online |-> FALSE]

\* configure_test: the dict `data`
configure_test_data(a) ==
    << Item("cmd[saveForm]", Str("Speichern")),
       Item("title", Str(a.title)),
       Item("description", Str(a.description)),
       Item("use_pool", Str("0")),
       Item("question_set_type", Str("FIXED_QUEST_SET")),
       Item("anonymity", Str("0")),
       Item("online", Str(IF a.online THEN "1" ELSE "0")),
       Item("showinfo", Str("1")),
       Item("intro_enabled", Str("1")),
       Item("introduction", Str(a.intro_text)),
       Item("starting_time", Str(format_time(a.starting_time))),
       Item("ending_time", Str(format_time(a.ending_time))),
       Item("limitPasses", Str("1")),
       Item("nr_of_tries", Str(ToString(a.number_of_tries))),
       Item("title_output", Str("0")),
       Item("answer_fixation_handling", Str("none")),
       Item("chb_use_previous_answers", Str("1")),
       Item("postpone", Str("0")),
       Item("autosave_ival", Str("30")),
       Item("instant_feedback_trigger", Str("0")) >>

\* build_form_data of configure_test adding every extra, set by the caller or not
configure_test_build_form_data_all(data, extra_data) ==
    data \o extra_data \o << Item("tile_image", EmptyFile) >>

\* build_form_data of configure_test: data, the extras not in data, tile_image
configure_test_build_form_data(data, extra_data) ==
    LET NotInData(item) == item.name \notin DictKeys(data)
    IN data \o SelectSeq(extra_data, NotInData) \o << Item("tile_image", EmptyFile) >>

\* the questions of a spec: QuestionFreeFormText, QuestionUploadFile and
\* QuestionSingleChoice with the fields of their constructors
Question(type, points, allowed_extensions, max_size_bytes, shuffle, answers) ==
    [question_type |-> type, title |-> "Question", author |-> "Author",
     summary |-> "Summary", question_html |-> "<p>text</p>", points |-> points,
     allowed_extensions |-> allowed_extensions, max_size_bytes |-> max_size_bytes,
     shuffle |-> shuffle, answers |-> answers]
Answers ==
    UNION {[1..n -> [answer : {"yes"}, points : {1}]] : n \in 0..MaxAnswers}
Questions ==
    {Question("freeform_text", 2, <<>>, 0, FALSE, <<>>)}
    \cup {Question("file_upload", 1, <<"pdf", "txt">>, 1024, FALSE, <<>>)}
    \cup {Question("single_choice", 0, <<>>, 0, TRUE, answers) : answers \in Answers}
NoQuestion == Question("none", 0, <<>>, 0, FALSE, <<>>)

\* str(x) of a float with a whole value, and ",".join(strings)
str_float(x) == ToString(x) \o ".0"
RECURSIVE join_comma(_)
join_comma(strings) ==
    IF strings = <<>> THEN ""
    ELSE IF Len(strings) = 1 THEN strings[1]
    ELSE strings[1] \o "," \o join_comma(Tail(strings))

\* the items choice[answer][i], choice[image][i], choice[points][i] of the answers
RECURSIVE answer_options(_, _)
answer_options(answers, index) ==
    IF answers = <<>> THEN <<>>
    ELSE << Item("choice[answer][" \o ToString(index) \o "]", Str(answers[1].answer)),
            Item("choice[image][" \o ToString(index) \o "]", PathValue("")),
            Item("choice[points][" \o ToString(index) \o "]",
                 Str(str_float(answers[1].points))) >>
         \o answer_options(Tail(answers), index + 1)

\* TestQuestion.get_options and its overrides
get_options(q) ==
    LET base == << Item("title", Str(q.title)),
                   Item("author", Str(q.author)),
                   Item("comment", Str(q.summary)),
                   Item("lifecycle", Str("draft")),
                   Item("question", Str(q.question_html)) >>
    IN CASE q.question_type = "freeform_text" ->
              DictUpdate(base,
                  << Item("scoring_mode", Str("non")),
                     Item("non_keyword_points", Str(str_float(q.points))),
                     Item("all_keyword_points", Str(str_float(q.points))),
                     Item("one_keyword_points", Str(str_float(q.points))) >>)
         [] q.question_type = "file_upload" ->
              DictUpdate(base,
                  << Item("allowedextensions", Str(join_comma(q.allowed_extensions))),
                     Item("maxsize", Str(ToString(q.max_size_bytes))),
                     Item("points", Str(str_float(q.points))) >>)
         [] q.question_type = "single_choice" ->
              DictUpdate(DictUpdate(base, answer_options(q.answers, 0)),
                  << Item("shuffle", Str(IF q.shuffle THEN "1" ELSE "0")),
                     Item("types", Str("0")),
                     Item("thumb_size", Str("")) >>)
         [] OTHER -> base

\* add_question: post_data before the defaults of the edit page are merged
add_question_options(q) ==
    DictSet(get_options(q), "cmd[saveReturn]", Str("Speichern und zurueckkehren"))

\* add_question: for key, val in defaults.items(): if key not in post_data: ...
RECURSIVE add_question_post_data(_, _)
add_question_post_data(post_data, defaults) ==
    IF defaults = <<>> THEN post_data
    ELSE add_question_post_data(
             IF defaults[1].name \notin DictKeys(post_data)
             THEN DictSet(post_data, defaults[1].name, defaults[1].value)
             ELSE post_data,
             Tail(defaults))

\* build_form_data of add_question: a Path becomes an empty file part
add_question_build_form_data(post_data) ==
    [i \in 1..Len(post_data) |->
        IF post_data[i].value.type = "path"
        THEN Item(post_data[i].name, EmptyFile)
        ELSE post_data[i]]

\* the calls whose payload is checked, and no call
FormCalls ==
    {[verb |-> "configure_test", config |-> a, question |-> NoQuestion] : a \in ConfigArgs}
    \cup {[verb |-> "add_question", config |-> NoConfig, question |-> q] : q \in Questions}
NoCall == [verb |-> "none", config |-> NoConfig, question |-> NoQuestion]

\* no glob resolution and no form submission going on
GlobIdle ==
    /\ tree = TreeEmpty
    /\ regex = <<>>
    /\ glob_pc = "idle"
    /\ glob_result = NoResult
FormIdle ==
    /\ form_page = NoPage
    /\ form_call = NoCall
    /\ form_pc = "idle"
    /\ payload = <<>>

(***************************************************************************)
(* The create workflow: run_create of __main__.py and add_test of          *)
(* automation.py, every interactor call made of logical requests of the    *)
(* action layer.                                                           *)
(***************************************************************************)
\* number of tests of the spec file, and of questions of its first test
MaxTests == 2
MaxQuestions == 3

\* the request slot the workflow awaits its calls on
Runner == 1

\* the spec file: test i has MaxQuestions - i + 1 questions, the first question of
\* a test has one text block in its page design
TestTitles == << <<"a">>, <<"b">>, <<"c">>, <<"d">> >>
SpecQuestions(n) ==
    [j \in 1..n |-> [title |-> "question " \o ToString(j),
                     page_design |-> IF j = 1 THEN <<"text">> ELSE <<>>]]
SpecTests ==
    [i \in 1..MaxTests |->
        [title |-> TestTitles[i],
         questions |-> SpecQuestions(IF MaxQuestions >= i THEN MaxQuestions - i + 1 ELSE 0)]]

\* --tests: every test, the test "a", no test
TestFilters == { <<".", "*">>, <<"a">>, <<"x">> }
\* --replicate on TreeFoo: two folders, one folder, no folder, no regex
ReplicatePatterns ==
    { <<"f","o","o","/",".","*">>, <<"f","o","o">>, <<"b","a","r">>, <<"*">> }

\* an interactor call of the workflow
Call(verb, folder, test, question) ==
    [verb |-> verb, folder |-> folder, test |-> test, question |-> question]
NoTest == <<>>

\* tests = [test for test in spec.tests if filter_with_regex(test.title, test_filter_regex)]
filter_tests(spec_tests, filter_regex) ==
    SelectSeq(spec_tests, LAMBDA test : filter_with_regex(test.title, filter_regex))

\* add_test with one settings submission
add_test_configure_once(folder, test) ==
    << Call("create_test", folder, test.title, ""),
       Call("select_tab", folder, test.title, "settings"),
       Call("configure_test", folder, test.title, ""),
       Call("configure_test_scoring", folder, test.title, ""),
       Call("select_tab", folder, test.title, "questions") >>
    \o [j \in 1..Len(test.questions) |->
           Call("add_question", folder, test.title, test.questions[j].title)]
    \o << Call("select_tab", folder, test.title, "questions"),
          Call("reorder_questions", folder, test.title, "") >>

\* async def add_test(interactor, folder, test): the interactor calls it awaits
add_test(folder, test) ==
    << Call("create_test", folder, test.title, ""),
       Call("select_tab", folder, test.title, "settings"),
       Call("configure_test", folder, test.title, ""),
       Call("configure_test", folder, test.title, ""),
       Call("configure_test_scoring", folder, test.title, ""),
       Call("select_tab", folder, test.title, "questions") >>
    \o [j \in 1..Len(test.questions) |->
           Call("add_question", folder, test.title, test.questions[j].title)]
    \o << Call("select_tab", folder, test.title, "questions"),
          Call("reorder_questions", folder, test.title, "") >>

\* the page design of the question a call adds
page_design_of(call) ==
    LET test == CHOOSE t \in {SpecTests[i] : i \in 1..MaxTests} : t.title = call.test
        q == CHOOSE j \in 1..Len(test.questions) : test.questions[j].title = call.question
    IN  test.questions[q].page_design

\* configure_test_scoring: one form of the scoring settings page is submitted
configure_test_scoring_requests == << "post_authenticated" >>

\* the logical requests an interactor call awaits, in order
call_requests(call) ==
    CASE call.verb = "select_page" -> << "get_soup" >>
      [] call.verb = "select_tab" -> << "get_soup" >>
      [] call.verb = "create_test" -> << "get_soup", "post_authenticated" >>
      [] call.verb = "configure_test" -> << "post_authenticated" >>
      [] call.verb = "configure_test_scoring" -> configure_test_scoring_requests
      [] call.verb = "add_question" ->
            << "get_soup", "post_authenticated", "post_authenticated", "get_soup" >>
            \o [b \in 1..Len(page_design_of(call)) |-> "post_authenticated_json"]
      [] call.verb = "reorder_questions" -> << "post_authenticated" >>

\* no run of a workflow going on
CreateIdle ==
    /\ run_pc = "idle"
    /\ test_filter_regex = <<>>
    /\ tests = <<>>
    /\ folder_index = 0
    /\ test_index = 0
    /\ step_index = 0
    /\ pending = <<>>
    /\ calls = <<>>
    /\ run_error = ErrNone

(***************************************************************************)
(* The alerts of a page: page_has_success_alert / page_has_failure_alert   *)
(* of ilias_html.py, the default soup_succeeded of _post_authenticated.    *)
(***************************************************************************)
\* number of elements with a role or an alert class on a page
MaxAlerts == 2

\* the class tokens of the elements, and for a word the tokens it is a substring
\* of ("word" in " ".join(classes))
ClassTokens == {"alert", "alert-success", "alert-danger"}
TokensContaining(word) ==
    IF word = "alert" THEN ClassTokens ELSE {word} \cap ClassTokens
class_contains(classes, word) == classes \cap TokensContaining(word) # {}

\* an element: its role attribute ("none" without one) and its classes
AlertElements == [role : {"alert", "status", "none"}, class : SUBSET ClassTokens]
AlertPages == UNION {[1..n -> AlertElements] : n \in 0..MaxAlerts}

\* page._soup.find_all(attrs={"role": ["status", "alert"]})
find_all_role(page) == SelectSeq(page, LAMBDA e : e.role \in {"status", "alert"})

\* page_has_failure_alert: some alert or status element has alert-danger
page_has_failure_alert(page) ==
    \E i \in 1..Len(find_all_role(page)) :
        class_contains(find_all_role(page)[i].class, "alert-danger")

\* page_has_success_alert without the check for a failure alert
page_has_success_alert_only(page) ==
    \E i \in 1..Len(find_all_role(page)) :
        class_contains(find_all_role(page)[i].class, "alert-success")

\* page_has_success_alert: no failure alert, and some alert or status element
\* has alert-success
page_has_success_alert(page) ==
    IF page_has_failure_alert(page) THEN FALSE
    ELSE \E i \in 1..Len(find_all_role(page)) :
             class_contains(find_all_role(page)[i].class, "alert-success")

NoAlertResult == [success |-> FALSE, accepted |-> FALSE, warn |-> WarnNone]

AlertIdle ==
    /\ alert_page = <<>>
    /\ alert_status_ok = FALSE
    /\ alert_pc = "idle"
    /\ alert_result = NoAlertResult

(***************************************************************************)
(* Questions and page design blocks of spec.py: serialize / deserialize.   *)
(* An object is a record of its attributes (those its class does not have  *)
(* at their default), a serialized dict is a record of its values with the *)
(* set of its keys.                                                        *)
(***************************************************************************)
\* number of blocks of a page design
MaxBlocks == 2

\* pathlib.Path: the parts of a path; str(path) joins them with "/", "." for no
\* part; Path(string) splits at "/" and drops empty parts and "."
RECURSIVE path_str_parts(_)
path_str_parts(parts) ==
    IF parts = <<>> THEN <<>>
    ELSE IF Len(parts) = 1 THEN parts[1]
    ELSE parts[1] \o <<"/">> \o path_str_parts(Tail(parts))
path_str(parts) == IF parts = <<>> THEN <<".">> ELSE path_str_parts(parts)
RECURSIVE path_split(_, _)
path_split(chars, part) ==
    IF chars = <<>> THEN (IF part = <<>> THEN <<>> ELSE <<part>>)
    ELSE IF Head(chars) = "/"
    THEN (IF part = <<>> THEN <<>> ELSE <<part>>) \o path_split(Tail(chars), <<>>)
    ELSE path_split(Tail(chars), Append(part, Head(chars)))
path_of(chars) == SelectSeq(path_split(chars, <<>>), LAMBDA part : part # <<".">>)

\* str(n) of a natural number as its decimal digits, and eval of such a string
RECURSIVE str_int(_)
str_int(n) == IF n < 10 THEN <<n>> ELSE Append(str_int(n \div 10), n % 10)
RECURSIVE eval_int(_)
eval_int(digits) ==
    IF Len(digits) = 1 THEN digits[1]
    ELSE 10 * eval_int(SubSeq(digits, 1, Len(digits) - 1)) + digits[Len(digits)]

\* PageDesignBlockText.Characteristic
Characteristics == {"Standard", "Headline1", "Headline2", "Headline3"}

\* PageDesignBlockText(text_html, characteristic), PageDesignBlockImage(image),
\* PageDesignBlockCode(code, language, name)
Block(class, text_html, characteristic, image, code, language, name) ==
    [class |-> class, text_html |-> text_html, characteristic |-> characteristic,
     image |-> image, code |-> code, language |-> language, name |-> name]
BlockText(text_html, characteristic) ==
    Block("PageDesignBlockText", text_html, characteristic, <<>>, "", "", "")
BlockImage(image) == Block("PageDesignBlockImage", "", "Standard", image, "", "", "")
BlockCode(code, language, name) ==
    Block("PageDesignBlockCode", "", "Standard", <<>>, code, language, name)
Blocks ==
    {BlockText("<p>text</p>", c) : c \in Characteristics}
    \cup {BlockImage(image) : image \in {<<>>, << <<"i">>, <<"a">> >>}}
    \cup {BlockCode("x = 1", "python", "a.py")}
PageDesigns == UNION {[1..n -> Blocks] : n \in 0..MaxBlocks}

\* the dict a block serializes to
BlockDict(keys, type, text, path, code, language, name) ==
    [keys |-> keys, type |-> type, text |-> text, path |-> path, code |-> code,
     language |-> language, name |-> name]

\* PageDesignBlockText.serialize / PageDesignBlockImage.serialize /
\* PageDesignBlockCode.serialize
block_serialize(block) ==
    CASE block.class = "PageDesignBlockText" ->
            BlockDict({"text", "type"}, "text", block.text_html, <<>>, "", "", "")
      [] block.class = "PageDesignBlockImage" ->
            BlockDict({"path", "type"}, "image", "", path_str(block.image), "", "", "")
      [] block.class = "PageDesignBlockCode" ->
            BlockDict({"code", "language", "name", "type"}, "code", "", <<>>,
                      block.code, block.language, block.name)

\* PageDesignBlock.deserialize and the deserialize of the three classes
block_deserialize(yml) ==
    CASE yml.type = "text" -> BlockText(yml.text, "Standard")
      [] yml.type = "image" -> BlockImage(path_of(yml.path))
      [] yml.type = "code" -> BlockCode(yml.code, yml.language, yml.name)

\* an answer of a choice question: (answer, points) of QuestionSingleChoice,
\* QuestionMultipleChoice.Answer(answer, points, points_unchecked)
ChoiceAnswer(answer, points, points_unchecked) ==
    [answer |-> answer, points |-> points, points_unchecked |-> points_unchecked]

\* a question object; selection_limit is {} for None and {n} for n
QuestionObject(class, page_design, points, allowed_extensions, max_size_bytes, shuffle, answers, selection_limit) ==
    [class |-> class, title |-> "Title", author |-> "Author", summary |-> "Summary",
     question_html |-> "<p>question</p>", page_design |-> page_design,
     points |-> points, allowed_extensions |-> allowed_extensions,
     max_size_bytes |-> max_size_bytes, shuffle |-> shuffle, answers |-> answers,
     selection_limit |-> selection_limit]

\* the questions of the four classes over every page design
QuestionObjects ==
    {QuestionObject("QuestionFreeFormText", d, 5, <<>>, 0, FALSE, <<>>, {}) :
        d \in PageDesigns}
    \cup {QuestionObject("QuestionUploadFile", d, 5, <<"pdf", "txt">>, 2048, FALSE, <<>>, {}) :
        d \in PageDesigns}
    \cup {QuestionObject("QuestionSingleChoice", d, 0, <<>>, 0, s,
                         << ChoiceAnswer("yes", 1, 0), ChoiceAnswer("no", 0, 0) >>, {}) :
        d \in PageDesigns, s \in BOOLEAN}
    \cup {QuestionObject("QuestionMultipleChoice", d, 0, <<>>, 0, FALSE,
                         << ChoiceAnswer("yes", 1, 0), ChoiceAnswer("no", 0, 1) >>, l) :
        d \in PageDesigns, l \in {{}, {1}}}
NoQuestionObject == QuestionObject("none", <<>>, 0, <<>>, 0, FALSE, <<>>, {})

\* the dict a question serializes to
QuestionDict(keys, type, q, page_design, points, allowed_filetypes, max_bytes, shuffle, answers, selection_limit) ==
    [keys |-> keys, type |-> type, title |-> q.title, author |-> q.author,
     summary |-> q.summary, question_html |-> q.question_html,
     page_design |-> page_design, points |-> points,
     allowed_filetypes |-> allowed_filetypes, max_bytes |-> max_bytes,
     shuffle |-> shuffle, answers |-> answers, selection_limit |-> selection_limit]
NoQuestionDict ==
    QuestionDict({}, "none", NoQuestionObject, <<>>, 0, <<>>, 0, FALSE, <<>>, {})

\* the keys of TestQuestion.serialize
BaseKeys == {"title", "author", "summary", "question_html", "page_design"}

\* the dicts of the answers: {"answer", "points"} of a single choice answer,
\* asdict(answer) of a multiple choice answer
answer_dicts(answers, keys) ==
    [i \in 1..Len(answers) |->
        [keys |-> keys, answer |-> answers[i].answer, points |-> answers[i].points,
         points_unchecked |->
             IF "points_unchecked" \in keys THEN answers[i].points_unchecked ELSE 0]]

\* TestQuestion.serialize and the serialize of the four classes
question_serialize(q) ==
    LET page_design == [i \in 1..Len(q.page_design) |-> block_serialize(q.page_design[i])]
    IN CASE q.class = "QuestionFreeFormText" ->
              QuestionDict(BaseKeys \cup {"points", "type"}, "freeform_text", q,
                           page_design, q.points, <<>>, 0, FALSE, <<>>, {})
         [] q.class = "QuestionUploadFile" ->
              QuestionDict(BaseKeys \cup {"allowed_filetypes", "max_bytes", "points", "type"},
                           "file_upload", q, page_design, q.points,
                           q.allowed_extensions, q.max_size_bytes, FALSE, <<>>, {})
         [] q.class = "QuestionSingleChoice" ->
              QuestionDict(BaseKeys \cup {"answers", "shuffle", "type"}, "single_choice", q,
                           page_design, 0, <<>>, 0, q.shuffle,
                           answer_dicts(q.answers, {"answer", "points"}), {})
         [] q.class = "QuestionMultipleChoice" ->
              QuestionDict(BaseKeys \cup {"answers", "shuffle", "type", "selection_limit"},
                           "multiple_choice", q, page_design, 0, <<>>, 0, q.shuffle,
                           answer_dicts(q.answers, {"answer", "points", "points_unchecked"}),
                           q.selection_limit)

\* the answers load_single_choice_question / load_multiple_choice_question read
load_answers(dicts) ==
    [i \in 1..Len(dicts) |->
        ChoiceAnswer(dicts[i].answer, dicts[i].points, dicts[i].points_unchecked)]

\* TestQuestion.deserialize with load_upload_file_question, load_freeform_question,
\* load_single_choice_question and load_multiple_choice_question
question_deserialize(yml) ==
    LET page_design == [i \in 1..Len(yml.page_design) |-> block_deserialize(yml.page_design[i])]
        from(class, points, allowed_extensions, max_size_bytes, shuffle, answers, limit) ==
            [class |-> class, title |-> yml.title, author |-> yml.author,
             summary |-> yml.summary, question_html |-> yml.question_html,
             page_design |-> page_design, points |-> points,
             allowed_extensions |-> allowed_extensions,
             max_size_bytes |-> max_size_bytes, shuffle |-> shuffle,
             answers |-> answers, selection_limit |-> limit]
    IN CASE yml.type = "file_upload" ->
              from("QuestionUploadFile", yml.points, yml.allowed_filetypes,
                   eval_int(str_int(yml.max_bytes)), FALSE, <<>>, {})
         [] yml.type = "freeform_text" ->
              from("QuestionFreeFormText", yml.points, <<>>, 0, FALSE, <<>>, {})
         [] yml.type = "single_choice" ->
              from("QuestionSingleChoice", 0, <<>>, 0, yml.shuffle,
                   load_answers(yml.answers), {})
         [] yml.type = "multiple_choice" ->
              from("QuestionMultipleChoice", 0, <<>>, 0, yml.shuffle,
                   load_answers(yml.answers),
                   IF "selection_limit" \in yml.keys THEN yml.selection_limit ELSE {})

RoundIdle ==
    /\ round_question = NoQuestionObject
    /\ round_pc = "idle"
    /\ round_serialized = NoQuestionDict
    /\ round_restored = NoQuestionObject

(***************************************************************************)
(* The manual grading of spec.py written to markdown and read back:        *)
(* manual_grading_write_question_md and load_manual_grading_results_from_md.*)
(* A text is a sequence of characters, an index counts from 0 as in the    *)
(* code, and the floats of the model have no fractional part.              *)
(***************************************************************************)
\* number of participants of the graded test
MaxParticipants == 2

\* CrawlError and built-in exceptions of the import and the upload
ErrExceeds == "exceeds max points"
ErrMissing == "Missing answer"
ErrCounts == "Participants have different number of answers"
ErrValue == "ValueError"
ErrKey == "KeyError"

\* str.find(pattern, start): the lowest index of pattern at or after start, -1 without
find(text, pattern, start) ==
    LET hits == {i \in start..(Len(text) - Len(pattern)) :
                    SubSeq(text, i + 1, i + Len(pattern)) = pattern}
    IN  IF hits = {} THEN -1 ELSE CHOOSE i \in hits : \A j \in hits : i <= j

startswith(text, prefix) ==
    Len(text) >= Len(prefix) /\ SubSeq(text, 1, Len(prefix)) = prefix

\* str.replace(old, new)
RECURSIVE replace(_, _, _)
replace(text, old, new) ==
    IF text = <<>> THEN <<>>
    ELSE IF startswith(text, old)
    THEN new \o replace(SubSeq(text, Len(old) + 1, Len(text)), old, new)
    ELSE <<Head(text)>> \o replace(Tail(text), old, new)

\* str.split(sep)
RECURSIVE split(_, _)
split(text, sep) ==
    LET at == find(text, sep, 0)
    IN  IF at < 0 THEN <<text>>
        ELSE <<SubSeq(text, 1, at)>>
             \o split(SubSeq(text, at + Len(sep) + 1, Len(text)), sep)

\* str.splitlines(): the lines without their line end, no empty line after the last
splitlines(text) ==
    LET lines == split(text, <<"\n">>)
    IN  IF lines[Len(lines)] = <<>> THEN SubSeq(lines, 1, Len(lines) - 1) ELSE lines

\* text[start:stop], a negative stop counted from the end
slice(text, start, stop) ==
    SubSeq(text, start + 1, IF stop < 0 THEN Len(text) + stop ELSE stop)

\* the character of the code fences, which no string of this language can hold
Backtick == "backtick"

\* f"{x}" of a float and float(text) of such a text
DigitChars == <<"0", "1", "2", "3", "4", "5", "6", "7", "8", "9">>
float_str(x) ==
    [i \in 1..Len(str_int(x)) |-> DigitChars[str_int(x)[i] + 1]] \o <<".", "0">>
is_float(text) ==
    LET parts == split(text, <<".">>)
        digits(part) == part # <<>> /\ \A i \in 1..Len(part) :
                            \E d \in 1..10 : DigitChars[d] = part[i]
    IN  /\ Len(parts) \in {1, 2}
        /\ \A p \in 1..Len(parts) : digits(parts[p])
        /\ Len(parts) = 2 => \A i \in 1..Len(parts[2]) : parts[2][i] = "0"
float(text) ==
    LET whole == split(text, <<".">>)[1]
    IN  eval_int([i \in 1..Len(whole) |->
                     (CHOOSE d \in 1..10 : DigitChars[d] = whole[i]) - 1])

\* ManualGradingParticipantInfo of the participant with the given number
Letters == <<"a", "b", "c", "d">>
ManualGradingParticipantInfo(last_name, first_name, email, username, detail_link) ==
    [last_name |-> last_name, first_name |-> first_name, email |-> email,
     username |-> username, detail_link |-> detail_link]
Participant(i) ==
    ManualGradingParticipantInfo(<<"L">>, <<"F">>, <<Letters[i], "@", "x">>,
                                 <<Letters[i]>>, <<"/", Letters[i]>>)
\* def format_name(self)
format_name(participant) ==
    participant.email \o <<" ", "(">> \o participant.last_name \o <<",", " ">>
    \o participant.first_name \o <<")">>

\* ManualGradingQuestion(id, text, max_points, question_type)
ManualGradingQuestion(id, text, max_points, question_type) ==
    [id |-> id, text |-> text, max_points |-> max_points, question_type |-> question_type]
\* the questions of the graded test: one to answer with text, one with files
GradingQuestions ==
    << ManualGradingQuestion(<<"1">>, <<"T">>, 2, "freeform_text"),
       ManualGradingQuestion(<<"2">>, <<"U">>, 2, "file_upload") >>

\* answer: str | list[ProgrammingQuestionAnswer]
AnswerStr(text) == [is_str |-> TRUE, text |-> text, files |-> <<>>]
AnswerFiles(files) == [is_str |-> FALSE, text |-> <<>>, files |-> files]
ProgrammingQuestionAnswer ==
    [file_name |-> <<"f">>, file_uri |-> <<"/", "f">>, file_content |-> <<"c">>]

\* ManualGradingGradedQuestion; feedback: str | None is the set of no or one text
ManualGradingGradedQuestion(question, answer, points, feedback, final_feedback) ==
    [question |-> question, answer |-> answer, points |-> points,
     feedback |-> feedback, final_feedback |-> final_feedback]

\* what a participant can have for a question: an answer as ILIAS shows it (the
\* html of a text answer, the files of an upload), the points and the feedback
GradedQuestions(question) ==
    IF question.question_type = "file_upload"
    THEN { ManualGradingGradedQuestion(question, AnswerFiles(<<ProgrammingQuestionAnswer>>),
                                       1, {}, FALSE),
           ManualGradingGradedQuestion(question, AnswerFiles(<<ProgrammingQuestionAnswer>>),
                                       3, {<<"o", "k">>}, FALSE) }
    ELSE { ManualGradingGradedQuestion(question, AnswerStr(<<"x">>), 1, {}, FALSE),
           ManualGradingGradedQuestion(question,
               AnswerStr(<<"<", "p", ">", "x", "<", "/", "p", ">">>),
               1, {<<" ", "o", "k">>}, TRUE),
           ManualGradingGradedQuestion(question, AnswerStr(<<"x">>), 3,
                                       {<<"o", "k">>}, FALSE) }

\* the answers of one participant: for each question none or one of the above
RECURSIVE AnswerLists(_)
AnswerLists(questions) ==
    IF questions = <<>> THEN {<<>>}
    ELSE LET rest == AnswerLists(Tail(questions))
         IN  rest \cup {<<graded>> \o answers :
                           graded \in GradedQuestions(questions[1]), answers \in rest}

\* ManualGradingParticipantResults(participant, answers)
ManualGradingParticipantResults(participant, answers) ==
    [participant |-> participant, answers |-> answers]
\* the lists of results slurp_participant_results can return
ParticipantResults ==
    { [i \in 1..MaxParticipants |->
          ManualGradingParticipantResults(Participant(i), lists[i])] :
      lists \in [1..MaxParticipants -> AnswerLists(GradingQuestions)] }

\* def get_question(self, question_id); None is the empty set
get_question(result, question_id) ==
    LET at == {i \in 1..Len(result.answers) : result.answers[i].question.id = question_id}
    IN  IF at = {} THEN {}
        ELSE {result.answers[CHOOSE i \in at : \A j \in at : i <= j]}

\* markdownify(text, ...) of the library: a paragraph becomes its text between
\* blank lines, a text without markup stays as it is
markdownify(text) ==
    IF startswith(text, <<"<", "p", ">">>) /\ Len(text) >= 7
       /\ SubSeq(text, Len(text) - 3, Len(text)) = <<"<", "/", "p", ">">>
    THEN <<"\n", "\n">> \o SubSeq(text, 4, Len(text) - 4) \o <<"\n", "\n">>
    ELSE text

\* re.sub(r"\s+" + tag, tag, text)
RECURSIVE sub_space_before(_, _)
sub_space_before(text, tag) ==
    IF text = <<>> THEN <<>>
    ELSE LET run == CHOOSE k \in 0..Len(text) :
                        /\ \A i \in 1..k : text[i] \in {" ", "\n"}
                        /\ k < Len(text) => text[k + 1] \notin {" ", "\n"}
             rest == SubSeq(text, run + 1, Len(text))
         IN  IF run = 0 THEN <<Head(text)>> \o sub_space_before(Tail(text), tag)
             ELSE IF startswith(rest, tag) THEN sub_space_before(rest, tag)
             ELSE SubSeq(text, 1, run) \o sub_space_before(rest, tag)

\* re.sub(tag + r"(\s|\n)+", tag, text)
RECURSIVE sub_space_after(_, _)
sub_space_after(text, tag) ==
    IF text = <<>> THEN <<>>
    ELSE IF startswith(text, tag)
    THEN LET rest == SubSeq(text, Len(tag) + 1, Len(text))
             run == CHOOSE k \in 0..Len(rest) :
                        /\ \A i \in 1..k : rest[i] \in {" ", "\n"}
                        /\ k < Len(rest) => rest[k + 1] \notin {" ", "\n"}
         IN  tag \o sub_space_after(SubSeq(rest, run + 1, Len(rest)), tag)
    ELSE <<Head(text)>> \o sub_space_after(Tail(text), tag)

\* re.sub(r"\n+```", "\n```", text)
RECURSIVE sub_newlines_before_fence(_)
sub_newlines_before_fence(text) ==
    IF text = <<>> THEN <<>>
    ELSE LET run == CHOOSE k \in 0..Len(text) :
                        /\ \A i \in 1..k : text[i] = "\n"
                        /\ k < Len(text) => text[k + 1] # "\n"
             rest == SubSeq(text, run + 1, Len(text))
         IN  IF run = 0 THEN <<Head(text)>> \o sub_newlines_before_fence(Tail(text))
             ELSE IF startswith(rest, <<Backtick, Backtick, Backtick>>)
             THEN <<"\n">> \o sub_newlines_before_fence(rest)
             ELSE SubSeq(text, 1, run) \o sub_newlines_before_fence(rest)

\* def convert(text) of manual_grading_write_question_md, convert_to_markdown left
\* at True; the second substitution needs a <p> with attributes, which no text of
\* the model has
convert(text) ==
    LET spaces == sub_space_after(
                      sub_space_before(sub_space_before(text, <<"<", "p", ">">>), <<"<", "p", "r", "e", ">">>),
                      <<"<", "/", "p", ">">>)
        markdown == sub_newlines_before_fence(markdownify(spaces))
    IN  strip(replace(markdown, <<"\\", "_">>, <<"_">>))

\* the part of the document of one participant
write_participant_md(result, question) ==
    LET question_result == get_question(result, question.id)
        graded == CHOOSE g \in question_result : TRUE
        is_upload == question.question_type = "file_upload"
        feedback == IF graded.feedback = {} THEN <<>>
                    ELSE CHOOSE text \in graded.feedback : TRUE
    IN  IF question_result = {} THEN <<>>
        ELSE <<"#", "#", " ">> \o format_name(result.participant) \o <<"\n", "\n">>
             \o <<"#", "#", "#", " ", "A", "n", "s", "w", "e", "r", " ">> \o float_str(graded.points) \o <<" ", "/", " ">>
             \o float_str(question.max_points) \o <<"\n">>
             \o <<Backtick, Backtick, Backtick, "\n">>
             \o (IF ~is_upload THEN convert(graded.answer.text) ELSE <<"f", "i", "l", "e", "_", "u", "p", "l", "o", "a", "d">>)
             \o <<"\n", Backtick, Backtick, Backtick, "\n">>
             \o <<"-", "-", "-", "-", "\n">>
             \o (IF is_upload THEN strip(feedback) ELSE strip(convert(feedback)))
             \o <<"\n", "\n">>

\* def manual_grading_write_question_md(results, question, convert_to_markdown=True)
RECURSIVE write_results_md(_, _)
write_results_md(results, question) ==
    IF results = <<>> THEN <<>>
    ELSE write_participant_md(results[1], question)
         \o write_results_md(Tail(results), question)
manual_grading_write_question_md(results, question) ==
    <<"#", " ">> \o question.text \o <<"\n", "\n">> \o write_results_md(results, question)

\* set([answer.question for res in participant_results for answer in res.answers]),
\* in the order of the test
questions_of(participant_results) ==
    SelectSeq(GradingQuestions,
              LAMBDA question : \E i \in 1..Len(participant_results) :
                  get_question(participant_results[i], question.id) # {})

\* class StringReader: underlying and position
StringReader(underlying) == [underlying |-> underlying, position |-> 0]
\* def read_until(self, pattern): found is FALSE for the ValueError, which leaves
\* the reader where it was
read_until(reader, pattern) ==
    LET pos == find(reader.underlying, pattern, reader.position)
    IN  IF pos < 0 THEN [found |-> FALSE, result |-> <<>>, reader |-> reader]
        ELSE [found |-> TRUE,
              result |-> SubSeq(reader.underlying, reader.position + 1, pos),
              reader |-> [reader EXCEPT !.position = pos + Len(pattern)]]
read_line(reader) == read_until(reader, <<"\n">>)
has_more(reader) == reader.position < Len(reader.underlying)
RECURSIVE skip_blank_lines(_)
skip_blank_lines(reader) ==
    IF has_more(reader) /\ reader.underlying[reader.position + 1] = "\n"
    THEN skip_blank_lines([reader EXCEPT !.position = @ + 1])
    ELSE reader
read_rest(reader) ==
    [found |-> TRUE,
     result |-> SubSeq(reader.underlying, reader.position + 1, Len(reader.underlying)),
     reader |-> [reader EXCEPT !.position = Len(reader.underlying)]]
can_find(reader, pattern) == find(reader.underlying, pattern, reader.position) >= 0

\* a check of the points that turns no record away
points_never_exceed(points, max_points) == FALSE
\* the check of _parse_student_question_result that turns a record away:
\* graded_question.points > graded_question.question.max_points
exceeds_max_points(points, max_points) == points > max_points

NoGraded ==
    ManualGradingGradedQuestion(ManualGradingQuestion(<<>>, <<>>, 0, "none"),
                                AnswerStr(<<>>), 0, {}, FALSE)

\* reader.read_until(pattern) for each of the patterns in turn: what each call
\* returned and the reader after the last; found is FALSE once a call raised
RECURSIVE read_each(_, _, _)
read_each(reader, patterns, results) ==
    IF patterns = <<>> THEN [found |-> TRUE, results |-> results, reader |-> reader]
    ELSE IF find(reader.underlying, patterns[1], reader.position) < 0
    THEN [found |-> FALSE, results |-> results, reader |-> reader]
    ELSE read_each(read_until(reader, patterns[1]).reader, Tail(patterns),
                   Append(results, read_until(reader, patterns[1]).result))

\* the reads of _parse_student_question_result up to the rule under the answer:
\* read_line(), read_until("### Answer"), read_line(), read_until of the opening
\* fence, read_until of the closing fence, read_until("----\n")
StudentPatterns ==
    << <<"\n">>, <<"#", "#", "#", " ", "A", "n", "s", "w", "e", "r">>, <<"\n">>, <<Backtick, Backtick, Backtick, "\n">>, <<"\n", Backtick, Backtick, Backtick, "\n">>, <<"-", "-", "-", "-", "\n">> >>

\* the record of _parse_student_question_result, made of what it read
student_question_result(reader, reads, feedback, question_id, question_title) ==
    LET name == replace(strip(reads.results[1]), <<"#", "#", " ">>, <<>>)
        student_mail == strip(slice(name, 0, find(name, <<"(">>, 0)))
        numbers == split(replace(reads.results[3], <<" ">>, <<>>), <<"/">>)
        answer == reads.results[5]
        failed(error) == [error |-> error, student_mail |-> <<>>,
                          graded |-> NoGraded, reader |-> reader]
    IN  IF Len(numbers) # 2 THEN failed(ErrValue)
        ELSE IF ~(is_float(numbers[1]) /\ is_float(numbers[2])) THEN failed(ErrValue)
        ELSE IF exceeds_max_points(float(numbers[1]), float(numbers[2]))
        THEN failed(ErrExceeds)
        ELSE [error |-> ErrNone, student_mail |-> student_mail,
              graded |-> ManualGradingGradedQuestion(
                  ManualGradingQuestion(
                      question_id, question_title, float(numbers[2]),
                      IF answer = <<"f", "i", "l", "e", "\\", "_", "u", "p", "l", "o", "a", "d">> THEN "file_upload"
                      ELSE "freeform_text"),
                  AnswerStr(answer), float(numbers[1]),
                  {strip(feedback.result)}, FALSE),
              reader |-> feedback.reader]

\* the feedback: up to the next "## " when there is one, else the rest
read_feedback(reader) ==
    IF can_find(reader, <<"#", "#", " ">>) THEN read_until(reader, <<"#", "#", " ">>) ELSE read_rest(reader)

\* def _parse_student_question_result(reader, question_id, question_title)
student_question_reads(reader, reads, question_id, question_title) ==
    IF ~reads.found
    THEN [error |-> ErrValue, student_mail |-> <<>>, graded |-> NoGraded,
          reader |-> reader]
    ELSE student_question_result(reader, reads, read_feedback(reads.reader),
                                 question_id, question_title)
_parse_student_question_result(reader, question_id, question_title) ==
    student_question_reads(reader, read_each(reader, StudentPatterns, <<>>),
                           question_id, question_title)

\* the loop of _parse_manual_grading_question_file; a later grading of a student
\* takes the place of an earlier one
RECURSIVE parse_gradings(_, _, _, _)
RECURSIVE add_grading(_, _, _, _)
add_grading(parsed, question_id, question_title, gradings_per_student) ==
    IF parsed.error # ErrNone THEN [error |-> parsed.error, value |-> <<>>]
    ELSE parse_gradings(skip_blank_lines(parsed.reader), question_id, question_title,
                        DictSet(gradings_per_student, parsed.student_mail,
                                parsed.graded))
parse_gradings(reader, question_id, question_title, gradings_per_student) ==
    IF ~has_more(reader) THEN [error |-> ErrNone, value |-> gradings_per_student]
    ELSE add_grading(_parse_student_question_result(reader, question_id, question_title),
                     question_id, question_title, gradings_per_student)

\* def _parse_manual_grading_question_file(question_id, text): the title line,
\* read_until("## "), then the loop
question_file_reads(reads, question_id) ==
    IF ~reads.found THEN [error |-> ErrValue, value |-> <<>>]
    ELSE parse_gradings(reads.reader, question_id,
                        replace(strip(reads.results[1]), <<"#", " ">>, <<>>), <<>>)
_parse_manual_grading_question_file(question_id, text) ==
    question_file_reads(read_each(StringReader(text), << <<"\n">>, <<"#", "#", " ">> >>, <<>>),
                        question_id)

\* def _parse_students_from_md(text)
RECURSIVE parse_students(_, _)
parse_students(students, results) ==
    IF students = <<>> THEN [error |-> ErrNone, value |-> results]
    ELSE LET student == replace(students[1], <<"#", "#", " ">>, <<>>)
             email == strip(slice(student, 0, find(student, <<"(">>, 0)))
             names == split(slice(student, find(student, <<"(">>, 0) + 1,
                                  find(student, <<")">>, 0)), <<",", " ">>)
         IN  IF Len(names) # 2 THEN [error |-> ErrValue, value |-> <<>>]
             ELSE parse_students(Tail(students),
                      DictSet(results, email,
                              ManualGradingParticipantInfo(names[1], names[2], email,
                                  split(email, <<"@">>)[1], <<>>)))
_parse_students_from_md(text) ==
    parse_students(SelectSeq(splitlines(text), LAMBDA line : startswith(line, <<"#", "#", " ">>)),
                   <<>>)

\* for email, result in question_results.items(): the answer added to the
\* participant of the email, made of students[email] when new
RECURSIVE add_question_results(_, _, _)
add_question_results(participant_results, question_results, students) ==
    IF question_results = <<>> THEN participant_results
    ELSE add_question_results(
             DictSet(participant_results, question_results[1].name,
                     IF question_results[1].name \in DictKeys(participant_results)
                     THEN [DictGet(participant_results, question_results[1].name)
                              EXCEPT !.answers = Append(@, question_results[1].value)]
                     ELSE ManualGradingParticipantResults(
                              DictGet(students, question_results[1].name),
                              <<question_results[1].value>>)),
             Tail(question_results), students)

\* a check of the answer counts that lets every import pass
answer_counts_never_differ(participant_results) == FALSE
\* the check of the answer counts of load_manual_grading_results_from_md:
\* len(set(answer_counts)) != 1
answer_counts_differ(participant_results) ==
    Cardinality({Len(participant_results[i].value.answers) :
                    i \in 1..Len(participant_results)}) # 1

\* the body of the loop over folder.glob("*.md") for one file, parsed: the check
\* for missing answers, then the answers added to their participants
add_question_file(participant_results, question_results, students) ==
    IF question_results.error # ErrNone
    THEN [error |-> question_results.error, value |-> <<>>]
    ELSE IF students.error # ErrNone
    THEN [error |-> students.error, value |-> <<>>]
    ELSE IF \E student \in DictKeys(students.value) :
                student \notin DictKeys(question_results.value)
    THEN [error |-> ErrMissing, value |-> <<>>]
    ELSE IF \E email \in DictKeys(question_results.value) :
                email \notin DictKeys(students.value) \cup DictKeys(participant_results)
    THEN [error |-> ErrKey, value |-> <<>>]
    ELSE [error |-> ErrNone,
          value |-> add_question_results(participant_results, question_results.value,
                                         students.value)]

\* the loop over folder.glob("*.md") of load_manual_grading_results_from_md, the
\* files in the order the folder lists them
RECURSIVE load_question_files(_, _)
load_question_files(files, loaded) ==
    IF files = <<>> \/ loaded.error # ErrNone THEN loaded
    ELSE load_question_files(
             Tail(files),
             add_question_file(
                 loaded.value,
                 _parse_manual_grading_question_file(
                     replace(files[1].name, <<".", "m", "d">>, <<>>), files[1].value),
                 _parse_students_from_md(files[1].value)))

\* the check after the loop: raise CrawlError for differing answer counts
check_answer_counts(loaded) ==
    IF loaded.error # ErrNone THEN loaded
    ELSE IF answer_counts_differ(loaded.value) THEN [error |-> ErrCounts, value |-> <<>>]
    ELSE loaded

\* def load_manual_grading_results_from_md(folder)
load_manual_grading_results_from_md(files) ==
    check_answer_counts(load_question_files(files, [error |-> ErrNone, value |-> <<>>]))

\* the orders in which a folder can list its files
Orders(files) ==
    { [i \in 1..Len(files) |-> files[order[i]]] :
      order \in {o \in [1..Len(files) -> 1..Len(files)] :
                    \A i, j \in 1..Len(files) : i # j => o[i] # o[j]} }

GradeIdle ==
    /\ grade_results = <<>>
    /\ grade_pc = "idle"
    /\ grade_folder = <<>>
    /\ grade_loaded = [error |-> ErrNone, value |-> <<>>]
    /\ grade_calls = <<>>
    /\ grade_error = ErrNone

(***************************************************************************)
(* The questions tab of a test: ilias_html.py reads the question table,    *)
(* ilias_action.py reorders the questions.                                 *)
(***************************************************************************)
\* number of rows of the question table and of titles of an order
MaxRows == 2

\* an exception: its class and its message
NoException == [error |-> ErrNone, message |-> <<>>]
CrawlError(message) == [error |-> "CrawlError", message |-> message]
KeyError(key) == [error |-> ErrKey, message |-> key]
ErrNotOnPage == "Not on test question page"
ErrNoTable == "Did not find questions table"
ErrNoOrderColumn == "Could not find order column. Page-Alerts: "

\* a td without a name attribute
NoName == <<"None">>
OrderName(id) == <<"o","r","d","e","r","[">> \o id \o <<"]">>
\* <tr> with its <td name=> cells and its <a href=>title</a>
Row(tds, title, href) == [tds |-> tds, a |-> [text |-> title, href |-> href]]
\* the rows of a question table: questions, one of them with the title of another,
\* the "no questions" row, a row of several cells without an order cell and a row
\* whose only cell is an order cell
TestQuestionRows ==
    {Row(<<NoName, OrderName(<<"1">>), NoName>>, <<"A">>, "q1"),
     Row(<<NoName, OrderName(<<" ","2">>), NoName>>, <<" ","B","\n">>, "q2"),
     Row(<<NoName, OrderName(<<"3">>), NoName>>, <<"A"," ">>, "q3"),
     Row(<<NoName>>, <<>>, "none"),
     Row(<<NoName, <<"o","b","l","[","4","]">>>>, <<"C">>, "q4"),
     Row(<<OrderName(<<"5">>)>>, <<"C">>, "q5")}

QuestionsUrl == "ilias.php?cmdClass=ilObjTestGUI&cmd=questions"
SettingsUrl == "ilias.php?cmdClass=ilObjTestSettingsGeneralGUI"
\* the texts of the .alert elements of a page
AlertTexts == {<<>>, <<<<" ","n","o","\n">>>>, <<<<"n","o">>, <<"!">>>>}
QuestionPage(url, table, rows, alerts) ==
    [url |-> url, table |-> table, rows |-> rows, alerts |-> alerts]
\* pages with a question table, without one, and a page that is not the questions tab
QuestionPages ==
    {QuestionPage(QuestionsUrl, TRUE, rows, alerts) :
        rows \in UNION {[1..n -> TestQuestionRows] : n \in 0..MaxRows},
        alerts \in AlertTexts}
    \cup {QuestionPage(QuestionsUrl, FALSE, <<>>, alerts) : alerts \in AlertTexts}
    \cup {QuestionPage(SettingsUrl, TRUE, <<>>, <<>>)}
NoQuestionPage == QuestionPage(SettingsUrl, FALSE, <<>>, <<>>)

\* the titles of an order
OrderTitles == {<<"A">>, <<"B">>, <<"C">>}
TitleOrders == UNION {[1..n -> OrderTitles] : n \in 0..MaxRows}

\* urljoin(self._page_url, link.get("href"))
abs_url_from_link(page, link) == [base |-> page.url, href |-> link.href]

\* "cmd=questions" in self.normalized_url() and "ilobjtestgui" in self.normalized_url()
on_question_page(page) == page.url = QuestionsUrl

\* for alert in self._soup.select(".alert"): alert_message += alert.getText().strip()
RECURSIVE alert_message(_)
alert_message(alerts) ==
    IF alerts = <<>> THEN <<>> ELSE strip(Head(alerts)) \o alert_message(Tail(alerts))

\* row.find(name="td", attrs={"name": lambda x: x is not None and x.startswith("order[")})
find_order_td(row) ==
    SelectSeq(row.tds, LAMBDA name : name # NoName /\ startswith(name, <<"o","r","d","e","r","[">>))

\* the loop over the rows that skips every row without an order cell
question_rows_skip_unordered(page, rows, result) ==
    [exception |-> NoException,
     result |-> result \o
         [i \in 1..Len(SelectSeq(rows, LAMBDA row : find_order_td(row) # <<>>)) |->
             [question_id |->
                  strip(replace(replace(
                      Head(find_order_td(SelectSeq(rows, LAMBDA row : find_order_td(row) # <<>>)[i])),
                      <<"o","r","d","e","r","[">>, <<>>), <<"]">>, <<>>)),
              link |-> SelectSeq(rows, LAMBDA row : find_order_td(row) # <<>>)[i].a]]]

\* the loop of _get_test_question_ids_and_links over the rows of the table
RECURSIVE question_rows(_, _, _)
question_rows(page, rows, result) ==
    IF rows = <<>> THEN [exception |-> NoException, result |-> result]
    ELSE IF Len(Head(rows).tds) = 1 THEN question_rows(page, Tail(rows), result)
    ELSE IF find_order_td(Head(rows)) = <<>>
    THEN [exception |-> CrawlError(<<ErrNoOrderColumn>> \o alert_message(page.alerts)),
          result |-> <<>>]
    ELSE question_rows(page, Tail(rows),
             Append(result,
                    [question_id |->
                         strip(replace(replace(Head(find_order_td(Head(rows))),
                                               <<"o","r","d","e","r","[">>, <<>>),
                                       <<"]">>, <<>>)),
                     link |-> Head(rows).a]))

\* def _get_test_question_ids_and_links(self): [(id, link tag for title)]
get_test_question_ids_and_links(page) ==
    IF ~on_question_page(page)
    THEN [exception |-> CrawlError(<<ErrNotOnPage>>), result |-> <<>>]
    ELSE IF ~page.table
    THEN [exception |-> CrawlError(<<ErrNoTable>>), result |-> <<>>]
    ELSE question_rows(page, page.rows, <<>>)

\* ids[title_link.getText().strip()] = question_id, for each row
RECURSIVE ids_of(_, _)
ids_of(ids_and_links, ids) ==
    IF ids_and_links = <<>> THEN ids
    ELSE ids_of(Tail(ids_and_links),
                DictSet(ids, strip(Head(ids_and_links).link.text),
                        Head(ids_and_links).question_id))

\* def get_test_question_ids(self): { title -> question_id }
get_test_question_ids(page) ==
    [exception |-> get_test_question_ids_and_links(page).exception,
     result |-> ids_of(get_test_question_ids_and_links(page).result, <<>>)]

\* def get_test_question_listing(self): [(title, url)] for all questions in a test
get_test_question_listing(page) ==
    [exception |-> get_test_question_ids_and_links(page).exception,
     result |-> [i \in 1..Len(get_test_question_ids_and_links(page).result) |->
                    <<strip(get_test_question_ids_and_links(page).result[i].link.text),
                      abs_url_from_link(page,
                          get_test_question_ids_and_links(page).result[i].link)>>]]

\* for index, title in enumerate(title_order): question_to_position[ids[title]] = index
RECURSIVE question_to_position(_, _, _, _)
question_to_position(ids, titles, index, positions) ==
    IF titles = <<>> THEN [exception |-> NoException, result |-> positions]
    ELSE IF Head(titles) \notin DictKeys(ids)
    THEN [exception |-> KeyError(Head(titles)), result |-> <<>>]
    ELSE question_to_position(ids, Tail(titles), index + 1,
                              DictSet(positions, DictGet(ids, Head(titles)), index))

\* def get_test_question_save_order_data(self, question_to_position): the data
RECURSIVE save_order_data(_, _)
save_order_data(positions, data) ==
    IF positions = <<>> THEN data
    ELSE save_order_data(Tail(positions),
                         DictSet(data, OrderName(Head(positions).name), Head(positions).value))

get_test_question_save_order_data(positions) ==
    save_order_data(positions,
                    <<Item(<<"cmd[saveOrderAndObligations]">>, "Sortierung+abspeichern")>>)

\* reorder_questions that takes the position of a title from the table row
reorder_by_row(page, titles) ==
    IF get_test_question_ids(page).exception # NoException
    THEN [exception |-> get_test_question_ids(page).exception, posts |-> <<>>]
    ELSE [exception |-> NoException,
          posts |-> <<get_test_question_save_order_data(
                        [i \in 1..Len(get_test_question_ids(page).result) |->
                            Item(get_test_question_ids(page).result[i].value, i - 1)])>>]

\* async def reorder_questions(self, questions_tab, title_order): the exception it
\* raises and the data of the POSTs it sends
reorder(page, titles) ==
    IF get_test_question_ids(page).exception # NoException
    THEN [exception |-> get_test_question_ids(page).exception, posts |-> <<>>]
    ELSE IF question_to_position(get_test_question_ids(page).result, titles, 0, <<>>).exception
                # NoException
    THEN [exception |->
              question_to_position(get_test_question_ids(page).result, titles, 0, <<>>).exception,
          posts |-> <<>>]
    ELSE [exception |-> NoException,
          posts |-> <<get_test_question_save_order_data(
                        question_to_position(get_test_question_ids(page).result,
                                             titles, 0, <<>>).result)>>]

OrderIdle ==
    /\ order_page = NoQuestionPage
    /\ title_order = <<>>
    /\ order_pc = "idle"
    /\ order_listing = <<>>
    /\ order_posts = <<>>
    /\ order_error = NoException

(***************************************************************************)
(* The design page of one question: ilias_action.py inserts the blocks of  *)
(* a page design one after the other.                                      *)
(***************************************************************************)
\* current_id = "": the empty id
EmptyId == <<>>
\* the id of the div of the question itself, the last component of the page
QuestionPcId == <<"pc", 0>>
\* a component of the page on the server: its id and the block it shows
Component(id, block) == [id |-> id, block |-> block]
\* an id no component of the page has: the 20 random digits of the client and the
\* id the server gives to a new component
fresh_id(server) == str_int(Len(server) + 1)

\* the server inserts a component after the component with id after_id, at the top
\* of the page for the empty id
server_insert(server, after_id, component) ==
    IF after_id = EmptyId \/ \A i \in 1..Len(server) : server[i].id # after_id
    THEN <<component>> \o server
    ELSE SubSeq(server, 1, CHOOSE i \in 1..Len(server) : server[i].id = after_id)
         \o <<component>>
         \o SubSeq(server, (CHOOSE i \in 1..Len(server) : server[i].id = after_id) + 1,
                   Len(server))

\* editor.find_all(name="div", id=lambda x: x is not None and x.startswith("pc"))
pc_candidates(server) ==
    [i \in 1..Len(server) |-> <<"pc">> \o server[i].id] \o <<QuestionPcId>>

\* last_component_id that takes the last div, the question
get_test_question_design_last_div_id(server) ==
    Tail(pc_candidates(server)[Len(pc_candidates(server))])

\* def get_test_question_design_last_component_id(self): candidates[-2] without
\* its "pc", "" with fewer than two candidates
get_test_question_design_last_component_id(server) ==
    IF Len(pc_candidates(server)) >= 2
    THEN Tail(pc_candidates(server)[Len(pc_candidates(server)) - 1])
    ELSE EmptyId

\* one request for an insertion sent: the block of the list and its after-id
InsertRequest(index, after_id) == [index |-> index, after_id |-> after_id]

DesignIdle ==
    /\ design_blocks = <<>>
    /\ design_pc = "idle"
    /\ design_index = 0
    /\ current_id = EmptyId
    /\ design_server = <<>>
    /\ design_inserts = <<>>
    /\ design_error = NoException

(***************************************************************************)
(* The design blocks of a question read from its preview page:             *)
(* get_test_question_design_blocks of ilias_html.py.                       *)
(***************************************************************************)
\* number of children of the preview form
MaxSiblings == 3

\* a child of the form: is it a bs4.Tag, its classes, and does it hold an element
\* of class ilc_media_cont_MediaContainer
Sibling(tag, classes, media) == [tag |-> tag, classes |-> classes, media |-> media]
\* a text node, the title, a paragraph, a code block, a media object, the question
\* without and with a media object in it, and a block of no known class
Siblings ==
    {Sibling(FALSE, <<>>, FALSE),
     Sibling(TRUE, <<"ilc_page_title_PageTitle">>, FALSE),
     Sibling(TRUE, <<"ilc_Paragraph", "ilc_text_block_Standard">>, FALSE),
     Sibling(TRUE, <<"ilc_Code">>, FALSE),
     Sibling(TRUE, <<>>, TRUE),
     Sibling(TRUE, <<"ilc_question_Standard">>, FALSE),
     Sibling(TRUE, <<"ilc_question_Standard">>, TRUE),
     Sibling(TRUE, <<"ilc_section_Block">>, FALSE)}
\* the page: has it a form named ilAssQuestionPreview, and the children of the form
PreviewPages ==
    [form : {TRUE}, children : UNION {[1..n -> Siblings] : n \in 0..MaxSiblings}]
    \cup {[form |-> FALSE, children |-> <<>>]}
NoPreviewPage == [form |-> FALSE, children |-> <<>>]

\* a block and the child of the form it was made from
DesignBlock(class, child) == [class |-> class, child |-> child]
WalkResult(exception, blocks, downloads) ==
    [exception |-> exception, blocks |-> blocks, downloads |-> downloads]
NoWalkResult == WalkResult(NoException, <<>>, <<>>)

\* "ilc_question_" in str(child_classes)
has_question_class(classes) ==
    \E i \in 1..Len(classes) : classes[i] \in {"ilc_question_Standard"}

\* "name" in child_classes
has_class(classes, name) == \E i \in 1..Len(classes) : classes[i] = name

\* for child in form.children: the loop of get_test_question_design_blocks
RECURSIVE design_blocks_walk(_, _, _, _)
design_blocks_walk(children, index, after_start, result) ==
    IF index > Len(children) THEN result
    ELSE IF ~children[index].tag
    THEN design_blocks_walk(children, index + 1, after_start, result)
    ELSE IF has_class(children[index].classes, "ilc_page_title_PageTitle")
    THEN design_blocks_walk(children, index + 1, TRUE, result)
    ELSE IF ~after_start
    THEN design_blocks_walk(children, index + 1, after_start, result)
    ELSE IF has_class(children[index].classes, "ilc_Paragraph")
    THEN design_blocks_walk(children, index + 1, after_start,
             WalkResult(NoException,
                        Append(result.blocks, DesignBlock("PageDesignBlockText", index)),
                        result.downloads))
    ELSE IF has_class(children[index].classes, "ilc_Code")
    THEN design_blocks_walk(children, index + 1, after_start,
             WalkResult(NoException,
                        Append(result.blocks, DesignBlock("PageDesignBlockCode", index)),
                        result.downloads))
    ELSE IF children[index].media
    THEN design_blocks_walk(children, index + 1, after_start,
             WalkResult(NoException,
                        Append(result.blocks, DesignBlock("PageDesignBlockImage", index)),
                        Append(result.downloads, index)))
    ELSE IF has_question_class(children[index].classes)
    THEN result
    ELSE design_blocks_walk(children, index + 1, after_start, result)

\* async def get_test_question_design_blocks(self, downloader)
get_test_question_design_blocks(page) ==
    IF ~page.form
    THEN WalkResult(CrawlError(<<"Could not find question preview form">>), <<>>, <<>>)
    ELSE design_blocks_walk(page.children, 1, FALSE, NoWalkResult)

PreviewIdle ==
    /\ preview_page = NoPreviewPage
    /\ preview_pc = "idle"
    /\ preview_result = NoWalkResult

(***************************************************************************)
(* The extra values of a form as a set of ExtraFormData:                   *)
(* _get_extra_form_values of ilias_tests/ilias_html.py.                    *)
(***************************************************************************)
\* an attribute that the element does not have: get(...) gives None
NoAttr == "None"
\* <input>, <textarea> and <select> with their name, value, required and disabled
\* attributes; the value of a select is that of its selected option
ExtraElement(tag, name, value, required, disabled) ==
    [tag |-> tag, name |-> name, value |-> value, required |-> required,
     disabled |-> disabled]
ExtraElements ==
    {ExtraElement(tag, name,
                  CASE tag = "input" -> "v1" [] tag = "select" -> "v2" [] tag = "textarea" -> NoAttr,
                  required, disabled) :
        tag \in {"input", "textarea", "select"}, name \in {"title", "kiosk"},
        required \in {NoAttr, "required"}, disabled \in {NoAttr, "", "disabled"}}
ExtraForms == UNION {[1..n -> ExtraElements] : n \in 0..MaxFields}

\* @dataclass class ExtraFormData: name, value, disabled; __eq__ and __hash__ by name
ExtraFormData(name, value, disabled) == [name |-> name, value |-> value, disabled |-> disabled]

\* extra_values.add(data): a set keeps the element it has when an equal one is added
set_add(extra_values, data) ==
    IF \E e \in extra_values : e.name = data.name THEN extra_values
    ELSE extra_values \cup {data}

\* form.find_all(name=tag, attrs={attr: value}), value None for any element of the tag
find_all(form, tag, attr, value) ==
    SelectSeq(form, LAMBDA e : e.tag = tag /\ (value = NoAttr \/ e[attr] = value))

\* one loop that adds name, value and disabled flag of each element
RECURSIVE add_values(_, _)
add_values(elements, extra_values) ==
    IF elements = <<>> THEN extra_values
    ELSE add_values(Tail(elements),
             set_add(extra_values,
                     ExtraFormData(Head(elements).name,
                                   IF Head(elements).value = NoAttr THEN ""
                                   ELSE Head(elements).value,
                                   Head(elements).disabled # NoAttr)))

\* one loop that adds ExtraFormData(name=..., value="", disabled=True)
RECURSIVE add_disabled(_, _)
add_disabled(elements, extra_values) ==
    IF elements = <<>> THEN extra_values
    ELSE add_disabled(Tail(elements),
                      set_add(extra_values, ExtraFormData(Head(elements).name, "", TRUE)))

\* def _get_extra_form_values(form) -> set[ExtraFormData]
_get_extra_form_values(form) ==
    add_disabled(find_all(form, "textarea", "disabled", "disabled"),
     add_disabled(find_all(form, "select", "disabled", "disabled"),
      add_disabled(find_all(form, "input", "disabled", "disabled"),
       add_values(find_all(form, "select", "name", NoAttr),
        add_values(find_all(form, "textarea", "required", "required"),
         add_values(find_all(form, "input", "required", "required"), {}))))))

ExtrasIdle ==
    /\ extras_form = <<>>
    /\ extras_pc = "idle"
    /\ extras_result = {}

(***************************************************************************)
(* The configure command: __main__.py run_configure, which reads the       *)
(* settings back with get_test_reconstruct_from_properties of              *)
(* ilias_html.py and posts them with configure_test.                       *)
(***************************************************************************)
\* the labels of the settings form; the code names no label for the intro text
LabelTitle == "Titel*"
LabelDescription == "Zusammenfassung"
LabelIntro == "Einleitung"
LabelStart == "Start"
LabelEnd == "Ende"
LabelTries == "Maximale Anzahl von Testdurchlaeufen"
SettingLabels == {LabelTitle, LabelDescription, LabelIntro, LabelStart, LabelEnd, LabelTries}

\* an input with or without a value attribute, a textarea with contents
SettingInput(value) == [has_value |-> TRUE, value |-> value, contents |-> <<>>]
SettingTextarea(contents) == [has_value |-> FALSE, value |-> <<>>, contents |-> contents]
InputNoValue == SettingTextarea(<<>>)

\* the text of a time input, "%Y-%m-%d %H:%M"
StartText == <<"2","0","2","6","-","1","1","-","0","6"," ","0","9",":","3","0">>
EndText == <<"2","0","2","6","-","1","2","-","2","4"," ","1","8",":","0","5">>

\* the settings pages: every label is there once, as ILIAS renders the form
TitleInputs == {SettingInput(<<"E","x">>), SettingInput(<<" ","E","x"," ">>)}
DescriptionAreas == {SettingTextarea(<<"D">>), SettingTextarea(<<>>)}
IntroAreas == {SettingTextarea(<<"D">>), SettingTextarea(<<"I","\n">>)}
StartInputs == {InputNoValue, SettingInput(<<>>), SettingInput(StartText)}
EndInputs == {InputNoValue, SettingInput(EndText)}
TriesInputs == {InputNoValue, SettingInput(<<"3">>), SettingInput(<<"1","0">>)}
SettingsPages ==
    {(LabelTitle :> t) @@ (LabelDescription :> d) @@ (LabelIntro :> i) @@ (LabelStart :> s)
     @@ (LabelEnd :> e) @@ (LabelTries :> n) :
        t \in TitleInputs, d \in DescriptionAreas, i \in IntroAreas, s \in StartInputs,
        e \in EndInputs, n \in TriesInputs}
NoSettingsPage == [label \in SettingLabels |-> InputNoValue]

\* _get_form_input_by_label_prefix: the element of the one label with the prefix
_get_form_input_by_label_prefix(page, label_prefix) == page[label_prefix]

\* element.get("value", default)
get_value(element, default) == IF element.has_value THEN element.value ELSE default

\* def _norm(inpt): inpt.strip().replace("\u00a0", " ").replace("\r\n", "\n")
_norm(inpt) == replace(strip(inpt), <<"\r", "\n">>, <<"\n">>)

\* int(text) of a text of decimal digits
DigitValue(char) == CHOOSE d \in 0..9 : ToString(d) = char
RECURSIVE int(_)
int(text) ==
    IF Len(text) = 1 THEN DigitValue(text[1])
    ELSE 10 * int(SubSeq(text, 1, Len(text) - 1)) + DigitValue(text[Len(text)])

\* datetime.datetime.strptime(time_str, "%Y-%m-%d %H:%M")
strptime(time_str) ==
    [day |-> int(SubSeq(time_str, 9, 10)), month |-> int(SubSeq(time_str, 6, 7)),
     year |-> int(SubSeq(time_str, 1, 4)), hour |-> int(SubSeq(time_str, 12, 13)),
     minute |-> int(SubSeq(time_str, 15, 16))]

\* def _parse_time(time_input): None without a value, else strptime
_parse_time(time_input) ==
    IF get_value(time_input, <<>>) = <<>> THEN NoTime
    ELSE strptime(get_value(time_input, <<>>))

\* get_test_reconstruct_from_properties: the IliasTest read from the settings
\* page; intro_text is read from description_elem
get_test_reconstruct_from_properties(page) ==
    [title |-> _norm(get_value(_get_form_input_by_label_prefix(page, LabelTitle), <<>>)),
     description |-> _norm(_get_form_input_by_label_prefix(page, LabelDescription).contents),
     intro_text |-> _norm(_get_form_input_by_label_prefix(page, LabelDescription).contents),
     starting_time |-> _parse_time(_get_form_input_by_label_prefix(page, LabelStart)),
     ending_time |-> _parse_time(_get_form_input_by_label_prefix(page, LabelEnd)),
     number_of_tries |->
         int(get_value(_get_form_input_by_label_prefix(page, LabelTries), <<"1","0","0">>))]

\* the keyword arguments run_configure gives configure_test
run_configure_args(test, publish) ==
    [title |-> test.title, description |-> test.description, intro_text |-> test.intro_text,
     starting_time |-> test.starting_time, ending_time |-> test.ending_time,
     number_of_tries |-> test.number_of_tries, online |-> publish = TRUE]

ConfigureIdle ==
    /\ settings_page = NoSettingsPage
    /\ args_publish = FALSE
    /\ configure_pc = "idle"
    /\ configure_payload = <<>>

\* no page of the sections below being scraped
PageIdle == OrderIdle /\ DesignIdle /\ PreviewIdle /\ ExtrasIdle /\ ConfigureIdle

\* nothing of the checks below going on
LaterIdle == AlertIdle /\ RoundIdle /\ GradeIdle /\ PageIdle

(***************************************************************************)
(* The authenticating action layer: ilias_action.py                        *)
(***************************************************************************)
\* the CrawlError raised when the retry after authenticating is rejected too
ErrEvenAfter(k) ==
    CASE k = "get_soup" -> "get_page failed even after authenticating"
      [] k = "post_authenticated" -> "post_authenticated failed even after authenticating"
      [] k = "post_authenticated_json" -> "post_authenticated_json failed even after authenticating"
      [] k = "download_file" -> "download_file failed even after authenticating"

\* does do_request of verb k return a result for this response (else None)
request_accepted(k, resp, logged_in) ==
    CASE k = "get_soup" -> logged_in
      [] k = "post_authenticated" -> resp.status_ok /\ resp.pred_ok
      [] k = "post_authenticated_json" -> resp.status_ok
      [] k = "download_file" -> resp.status_ok

\* do_request logging the same warning for both failures
request_warning_same(k, resp) ==
    IF k # "post_authenticated" \/ resp.exc THEN WarnNone
    ELSE IF ~resp.status_ok \/ ~resp.pred_ok THEN WarnFailed
    ELSE WarnNone

\* the warning do_request logs for the attempt (log.warn, only in _post_authenticated)
request_warning(k, resp) ==
    IF k # "post_authenticated" \/ resp.exc THEN WarnNone
    ELSE IF ~resp.status_ok THEN WarnFailed
    ELSE IF ~resp.pred_ok THEN WarnValidation
    ELSE WarnNone

\* which failure surface the response of an attempt belongs to
response_surface(resp, logged_in) ==
    IF resp.exc THEN "network"
    ELSE IF ~resp.status_ok THEN "non2xx"
    ELSE IF ~logged_in THEN "not_logged_in"
    ELSE IF ~resp.pred_ok THEN "validation"
    ELSE "none"

\* a response that a healthy, logged-in server would not give uses up a fault
FaultCost(resp) ==
    IF resp.exc \/ (session_valid /\ ~(resp.status_ok /\ resp.pred_ok)) THEN 1 ELSE 0

\* a network exception leaves the body of the verb: the _iorepeat wrapper runs the
\* body again while it has attempts left and raises a CrawlError after the last;
\* download_file has no wrapper and the exception reaches main
iorepeat(r) ==
    IF kind[r] \in Repeated /\ round[r] < IoRepeatAttempts
    THEN /\ pc' = [pc EXCEPT ![r] = "start"]
         /\ round' = [round EXCEPT ![r] = @ + 1]
         /\ err' = err
    ELSE /\ pc' = [pc EXCEPT ![r] = "failed"]
         /\ round' = round
         /\ err' = [err EXCEPT ![r] = IF kind[r] \in Repeated THEN ErrIO ELSE ErrUnexpected]

\* _current_auth_id that reads the id without taking the lock
current_auth_id_without_lock(r) ==
    /\ pc[r] = "start"
    /\ auth_id' = [auth_id EXCEPT ![r] = authentication_id]
    /\ request_count' = request_count + 1
    /\ attempts' = [attempts EXCEPT ![r] = 0]
    /\ pc' = [pc EXCEPT ![r] = "attempt"]
    /\ UNCHANGED <<otherVars, cookie_saves, closed>>
    /\ UNCHANGED <<authentication_id, authentication_lock, cookie_file, session_valid,
                   faults, logins, kind, total, round, surface, warn, err>>

\* async with self._authentication_lock: self._request_count += 1; return self._authentication_id
current_auth_id(r) ==
    /\ pc[r] = "start"
    /\ authentication_lock = NoProc
    /\ auth_id' = [auth_id EXCEPT ![r] = authentication_id]
    /\ request_count' = request_count + 1
    /\ attempts' = [attempts EXCEPT ![r] = 0]
    /\ pc' = [pc EXCEPT ![r] = "attempt"]
    /\ UNCHANGED <<otherVars, cookie_saves, closed>>
    /\ UNCHANGED <<authentication_id, authentication_lock, cookie_file, session_valid,
                   faults, logins, kind, total, round, surface, warn, err>>

\* a first attempt that authenticates only when the session was rejected: a
\* response of a logged-in session that fails a predicate ends the request
first_attempt_fatal_when_logged_in(r) ==
    /\ pc[r] = "attempt"
    /\ \E resp \in Responses :
        /\ faults + FaultCost(resp) <= MaxFaults
        /\ faults' = faults + FaultCost(resp)
        /\ attempts' = [attempts EXCEPT ![r] = @ + 1]
        /\ total' = [total EXCEPT ![r] = @ + 1]
        /\ surface' = [surface EXCEPT ![r] = response_surface(resp, session_valid)]
        /\ warn' = [warn EXCEPT ![r] = request_warning(kind[r], resp)]
        /\ IF resp.exc THEN iorepeat(r)
           ELSE IF request_accepted(kind[r], resp, session_valid)
           THEN /\ pc' = [pc EXCEPT ![r] = "done"]
                /\ UNCHANGED <<round, err>>
           ELSE IF session_valid
           THEN /\ pc' = [pc EXCEPT ![r] = "failed"]
                /\ err' = [err EXCEPT ![r] = ErrEvenAfter(kind[r])]
                /\ round' = round
           ELSE /\ pc' = [pc EXCEPT ![r] = "auth"]
                /\ UNCHANGED <<round, err>>
    /\ UNCHANGED <<otherVars, cookie_saves, closed>>
    /\ UNCHANGED <<authentication_id, authentication_lock, request_count, cookie_file,
                   session_valid, logins, kind, auth_id>>

\* if page := await do_request(): return page      (the first attempt)
first_attempt(r) ==
    /\ pc[r] = "attempt"
    /\ \E resp \in Responses :
        /\ faults + FaultCost(resp) <= MaxFaults
        /\ faults' = faults + FaultCost(resp)
        /\ attempts' = [attempts EXCEPT ![r] = @ + 1]
        /\ total' = [total EXCEPT ![r] = @ + 1]
        /\ surface' = [surface EXCEPT ![r] = response_surface(resp, session_valid)]
        /\ warn' = [warn EXCEPT ![r] = request_warning(kind[r], resp)]
        /\ IF resp.exc THEN iorepeat(r)
           ELSE /\ pc' = [pc EXCEPT ![r] =
                        IF request_accepted(kind[r], resp, session_valid) THEN "done" ELSE "auth"]
                /\ UNCHANGED <<round, err>>
    /\ UNCHANGED <<otherVars, cookie_saves, closed>>
    /\ UNCHANGED <<authentication_id, authentication_lock, request_count, cookie_file,
                   session_valid, logins, kind, auth_id>>

\* authenticate that logs in whatever the caller's id is
authenticate_always_logs_in(r) ==
    /\ pc[r] = "auth"
    /\ authentication_lock = NoProc
    /\ pc' = [pc EXCEPT ![r] = "login"]
    /\ authentication_lock' = r
    /\ logins' = logins + 1
    /\ UNCHANGED <<otherVars, cookie_saves, closed>>
    /\ UNCHANGED <<authentication_id, request_count, cookie_file, session_valid, faults,
                   kind, auth_id, attempts, total, round, surface, warn, err>>

\* authenticate that does not wait for the lock
authenticate_without_lock(r) ==
    /\ pc[r] = "auth"
    /\ IF auth_id[r] # authentication_id
       THEN /\ pc' = [pc EXCEPT ![r] = "retry"]
            /\ UNCHANGED <<authentication_lock, logins>>
       ELSE /\ pc' = [pc EXCEPT ![r] = "login"]
            /\ authentication_lock' = r
            /\ logins' = logins + 1
    /\ UNCHANGED <<otherVars, cookie_saves, closed>>
    /\ UNCHANGED <<authentication_id, request_count, cookie_file, session_valid, faults,
                   kind, auth_id, attempts, total, round, surface, warn, err>>

\* authenticate that counts a skipped login as one more generation
authenticate_bumps_on_skip(r) ==
    /\ pc[r] = "auth"
    /\ authentication_lock = NoProc
    /\ IF auth_id[r] # authentication_id
       THEN /\ pc' = [pc EXCEPT ![r] = "retry"]
            /\ authentication_id' = authentication_id + 1
            /\ UNCHANGED <<authentication_lock, logins>>
       ELSE /\ pc' = [pc EXCEPT ![r] = "login"]
            /\ authentication_lock' = r
            /\ logins' = logins + 1
            /\ UNCHANGED authentication_id
    /\ UNCHANGED <<otherVars, cookie_saves, closed>>
    /\ UNCHANGED <<request_count, cookie_file, session_valid, faults,
                   kind, auth_id, attempts, total, round, surface, warn, err>>

\* async with self._authentication_lock: return early on an id mismatch, else log in
authenticate(r) ==
    /\ pc[r] = "auth"
    /\ authentication_lock = NoProc
    /\ IF auth_id[r] # authentication_id
       THEN /\ pc' = [pc EXCEPT ![r] = "retry"]
            /\ UNCHANGED <<authentication_lock, logins>>
       ELSE /\ pc' = [pc EXCEPT ![r] = "login"]
            /\ authentication_lock' = r
            /\ logins' = logins + 1
    /\ UNCHANGED <<otherVars, cookie_saves, closed>>
    /\ UNCHANGED <<authentication_id, request_count, cookie_file, session_valid, faults,
                   kind, auth_id, attempts, total, round, surface, warn, err>>

\* a successful login that leaves the lock before it has saved the cookies
login_succeeds_saves_later(r) ==
    /\ pc[r] = "login"
    /\ authentication_lock = r
    /\ authentication_id' = authentication_id + 1
    /\ session_valid' = TRUE
    /\ authentication_lock' = NoProc
    /\ pc' = [pc EXCEPT ![r] = "retry"]
    /\ UNCHANGED <<otherVars, closed, cookie_file, cookie_saves>>
    /\ UNCHANGED <<request_count, faults, logins, kind, auth_id, attempts, total, round,
                   surface, warn, err>>

\* await self._authenticate() returns; self._authentication_id += 1; self._save_cookies()
login_succeeds(r) ==
    /\ pc[r] = "login"
    /\ authentication_lock = r
    /\ authentication_id' = authentication_id + 1
    /\ cookie_file' = authentication_id + 1
    /\ cookie_saves' = cookie_saves + 1
    /\ session_valid' = TRUE
    /\ authentication_lock' = NoProc
    /\ pc' = [pc EXCEPT ![r] = "retry"]
    /\ UNCHANGED <<otherVars, closed>>
    /\ UNCHANGED <<request_count, faults, logins, kind, auth_id, attempts, total, round,
                   surface, warn, err>>

\* a login whose failure is swallowed: the request goes on to its retry
login_fails_retries(r) ==
    /\ pc[r] = "login"
    /\ authentication_lock = r
    /\ faults < MaxFaults
    /\ faults' = faults + 1
    /\ authentication_lock' = NoProc
    /\ surface' = [surface EXCEPT ![r] = "login"]
    /\ pc' = [pc EXCEPT ![r] = "retry"]
    /\ UNCHANGED <<otherVars, cookie_saves, closed>>
    /\ UNCHANGED <<authentication_id, request_count, cookie_file, session_valid, logins,
                   kind, auth_id, attempts, total, warn, round, err>>

\* a failing login that counts as a generation all the same
login_fails_counts(r) ==
    /\ pc[r] = "login"
    /\ authentication_lock = r
    /\ faults < MaxFaults
    /\ faults' = faults + 1
    /\ authentication_lock' = NoProc
    /\ authentication_id' = authentication_id + 1
    /\ \E network \in BOOLEAN :
        IF network
        THEN /\ surface' = [surface EXCEPT ![r] = "network"]
             /\ iorepeat(r)
        ELSE /\ surface' = [surface EXCEPT ![r] = "login"]
             /\ pc' = [pc EXCEPT ![r] = "failed"]
             /\ err' = [err EXCEPT ![r] = ErrLogin]
             /\ round' = round
    /\ UNCHANGED <<otherVars, cookie_saves, closed>>
    /\ UNCHANGED <<request_count, cookie_file, session_valid, logins,
                   kind, auth_id, attempts, total, warn>>

\* await self._authenticate() raises: a network exception or a CrawlError of the login
login_fails(r) ==
    /\ pc[r] = "login"
    /\ authentication_lock = r
    /\ faults < MaxFaults
    /\ faults' = faults + 1
    /\ authentication_lock' = NoProc
    /\ \E network \in BOOLEAN :
        IF network
        THEN /\ surface' = [surface EXCEPT ![r] = "network"]
             /\ iorepeat(r)
        ELSE /\ surface' = [surface EXCEPT ![r] = "login"]
             /\ pc' = [pc EXCEPT ![r] = "failed"]
             /\ err' = [err EXCEPT ![r] = ErrLogin]
             /\ round' = round
    /\ UNCHANGED <<otherVars, cookie_saves, closed>>
    /\ UNCHANGED <<authentication_id, request_count, cookie_file, session_valid, logins,
                   kind, auth_id, attempts, total, warn>>

\* a retry that authenticates and tries again for as long as it is rejected
retry_until_accepted(r) ==
    /\ pc[r] = "retry"
    /\ \E resp \in Responses :
        /\ faults + FaultCost(resp) <= MaxFaults
        /\ faults' = faults + FaultCost(resp)
        /\ attempts' = [attempts EXCEPT ![r] = @ + 1]
        /\ total' = [total EXCEPT ![r] = @ + 1]
        /\ surface' = [surface EXCEPT ![r] = response_surface(resp, session_valid)]
        /\ warn' = [warn EXCEPT ![r] = request_warning(kind[r], resp)]
        /\ IF resp.exc THEN iorepeat(r)
           ELSE /\ pc' = [pc EXCEPT ![r] =
                        IF request_accepted(kind[r], resp, session_valid) THEN "done" ELSE "auth"]
                /\ UNCHANGED <<round, err>>
    /\ UNCHANGED <<otherVars, cookie_saves, closed>>
    /\ UNCHANGED <<authentication_id, authentication_lock, request_count, cookie_file,
                   session_valid, logins, kind, auth_id>>

\* if page := await do_request(): return page; raise CrawlError(...)   (the retry)
retry_once(r) ==
    /\ pc[r] = "retry"
    /\ \E resp \in Responses :
        /\ faults + FaultCost(resp) <= MaxFaults
        /\ faults' = faults + FaultCost(resp)
        /\ attempts' = [attempts EXCEPT ![r] = @ + 1]
        /\ total' = [total EXCEPT ![r] = @ + 1]
        /\ surface' = [surface EXCEPT ![r] = response_surface(resp, session_valid)]
        /\ warn' = [warn EXCEPT ![r] = request_warning(kind[r], resp)]
        /\ IF resp.exc THEN iorepeat(r)
           ELSE IF request_accepted(kind[r], resp, session_valid)
           THEN /\ pc' = [pc EXCEPT ![r] = "done"]
                /\ UNCHANGED <<round, err>>
           ELSE /\ pc' = [pc EXCEPT ![r] = "failed"]
                /\ err' = [err EXCEPT ![r] = ErrEvenAfter(kind[r])]
                /\ round' = round
    /\ UNCHANGED <<otherVars, cookie_saves, closed>>
    /\ UNCHANGED <<authentication_id, authentication_lock, request_count, cookie_file,
                   session_valid, logins, kind, auth_id>>

\* the server ends the session of the cookie jar
session_expires ==
    /\ session_valid
    /\ faults < MaxFaults
    /\ session_valid' = FALSE
    /\ faults' = faults + 1
    /\ UNCHANGED <<otherVars, cookie_saves, closed>>
    /\ UNCHANGED <<authentication_id, authentication_lock, request_count, cookie_file,
                   logins, reqVars>>

\* async def __aexit__, once the requests made inside the async with have ended:
\* self._save_cookies(), then the session is closed
aexit ==
    /\ ~closed
    /\ \A r \in Procs : pc[r] \in {"done", "failed"}
    /\ closed' = TRUE
    /\ cookie_file' = authentication_id
    /\ cookie_saves' = cookie_saves + 1
    /\ UNCHANGED otherVars
    /\ UNCHANGED <<authentication_id, authentication_lock, request_count, session_valid,
                   faults, logins, reqVars>>

\* IliasInteractor.__init__, and a herd of requests of one verb about to be issued
Init ==
    /\ authentication_id = 0
    /\ authentication_lock = NoProc
    /\ request_count = 0
    /\ cookie_file = 0
    /\ session_valid \in BOOLEAN
    /\ faults = 0
    /\ logins = 0
    /\ cookie_saves = 0
    /\ closed = FALSE
    /\ \E k \in Kinds : kind = [r \in Procs |-> k]
    /\ pc = [r \in Procs |-> "start"]
    /\ auth_id = [r \in Procs |-> 0]
    /\ attempts = [r \in Procs |-> 0]
    /\ total = [r \in Procs |-> 0]
    /\ round = [r \in Procs |-> 1]
    /\ surface = [r \in Procs |-> "none"]
    /\ warn = [r \in Procs |-> WarnNone]
    /\ err = [r \in Procs |-> ErrNone]
    /\ GlobIdle
    /\ FormIdle
    /\ CreateIdle
    /\ LaterIdle

Next ==
    \/ \E r \in Procs : current_auth_id(r)
    \/ \E r \in Procs : first_attempt(r)
    \/ \E r \in Procs : authenticate(r)
    \/ \E r \in Procs : login_succeeds(r)
    \/ \E r \in Procs : login_fails(r)
    \/ \E r \in Procs : retry_once(r)
    \/ session_expires
    \/ aexit

Spec == Init /\ [][Next]_vars

(***************************************************************************)
(* The glob resolver run on one hierarchy and one pattern.                 *)
(***************************************************************************)
\* the action layer at rest
AuthIdle ==
    /\ authentication_id = 0
    /\ authentication_lock = NoProc
    /\ request_count = 0
    /\ cookie_file = 0
    /\ session_valid = TRUE
    /\ faults = 0
    /\ logins = 0
    /\ cookie_saves = 0
    /\ closed = FALSE
    /\ kind = [r \in Procs |-> "get_soup"]
    /\ pc = [r \in Procs |-> "idle"]
    /\ auth_id = [r \in Procs |-> 0]
    /\ attempts = [r \in Procs |-> 0]
    /\ total = [r \in Procs |-> 0]
    /\ round = [r \in Procs |-> 1]
    /\ surface = [r \in Procs |-> "none"]
    /\ warn = [r \in Procs |-> WarnNone]
    /\ err = [r \in Procs |-> ErrNone]

InitGlob ==
    /\ AuthIdle
    /\ tree \in Trees
    /\ regex \in Patterns
    /\ glob_pc = "start"
    /\ glob_result = NoResult
    /\ FormIdle
    /\ CreateIdle
    /\ LaterIdle

\* target_folders = await ilias_glob_regex(interactor, root, replicate_glob_regex)
glob_resolve ==
    /\ glob_pc = "start"
    /\ glob_result' = ilias_glob_regex(tree, RootUrl, regex)
    /\ glob_pc' = "done"
    /\ UNCHANGED <<tree, regex, authVars, reqVars, formVars, laterVars, createVars>>

NextGlob == glob_resolve

SpecGlob == InitGlob /\ [][NextGlob]_vars

(***************************************************************************)
(* One form submission of configure_test or add_question.                  *)
(***************************************************************************)
InitForm ==
    /\ AuthIdle
    /\ GlobIdle
    /\ form_page \in Pages
    /\ form_call \in FormCalls
    /\ form_pc = "start"
    /\ payload = <<>>
    /\ CreateIdle
    /\ LaterIdle

\* configure_test: data, the extras of the settings page, build_form_data
configure_test ==
    /\ form_pc = "start"
    /\ form_call.verb = "configure_test"
    /\ payload' = configure_test_build_form_data(
                      configure_test_data(form_call.config),
                      get_test_settings_change_data(form_page))
    /\ form_pc' = "posted"
    /\ UNCHANGED <<form_page, form_call, laterVars, authVars, reqVars, globVars, createVars>>

\* add_question: the options of the question, the defaults of the edit page,
\* build_form_data
add_question ==
    /\ form_pc = "start"
    /\ form_call.verb = "add_question"
    /\ payload' = add_question_build_form_data(
                      add_question_post_data(
                          add_question_options(form_call.question),
                          get_test_question_finalize_data(form_page)))
    /\ form_pc' = "posted"
    /\ UNCHANGED <<form_page, form_call, laterVars, authVars, reqVars, globVars, createVars>>

NextForm == configure_test \/ add_question

SpecForm == InitForm /\ [][NextForm]_vars

(***************************************************************************)
(* run_create on the spec file, one --tests filter and one --replicate     *)
(* pattern; the interactor's requests run on the slot Runner.              *)
(***************************************************************************)
InitCreate ==
    /\ AuthIdle
    /\ FormIdle
    /\ LaterIdle
    /\ tree = TreeFoo
    /\ regex \in ReplicatePatterns
    /\ glob_pc = "start"
    /\ glob_result = NoResult
    /\ run_pc = "start"
    /\ test_filter_regex \in TestFilters
    /\ tests = <<>>
    /\ folder_index = 0
    /\ test_index = 0
    /\ step_index = 0
    /\ pending = <<>>
    /\ calls = <<>>
    /\ run_error = ErrNone

\* the call the workflow awaits has returned
Returned == pending = <<>> /\ pc[Runner] \in {"idle", "done"}

\* the interactor sends the next logical request of the call it is in
interactor_request ==
    /\ pending # <<>>
    /\ pc[Runner] \in {"idle", "done"}
    /\ run_pc \notin {"crashed", "finished"}
    /\ kind' = [kind EXCEPT ![Runner] = Head(pending)]
    /\ pc' = [pc EXCEPT ![Runner] = "start"]
    /\ attempts' = [attempts EXCEPT ![Runner] = 0]
    /\ total' = [total EXCEPT ![Runner] = 0]
    /\ round' = [round EXCEPT ![Runner] = 1]
    /\ surface' = [surface EXCEPT ![Runner] = "none"]
    /\ warn' = [warn EXCEPT ![Runner] = WarnNone]
    /\ err' = [err EXCEPT ![Runner] = ErrNone]
    /\ pending' = Tail(pending)
    /\ UNCHANGED <<authVars, auth_id, globVars, formVars, laterVars, run_pc, test_filter_regex,
                   tests, folder_index, test_index, step_index, calls, run_error>>

\* tests = [...]; await interactor.select_page(ilias_folder)
run_create ==
    /\ run_pc = "start"
    /\ tests' = filter_tests(SpecTests, test_filter_regex)
    /\ calls' = Append(calls, Call("select_page", RootUrl, NoTest, ""))
    /\ pending' = call_requests(Call("select_page", RootUrl, NoTest, ""))
    /\ run_pc' = "select_page"
    /\ UNCHANGED <<authVars, reqVars, globVars, formVars, laterVars, test_filter_regex,
                   folder_index, test_index, step_index, run_error>>

\* target_folders = await ilias_glob_regex(interactor, root, replicate_glob_regex):
\* one select_page for every page it descends into; re.error is no CrawlError
run_create_glob ==
    /\ run_pc = "select_page"
    /\ Returned
    /\ LET res == ilias_glob_regex(tree, RootUrl, regex)
           fetches == [i \in 1..Len(res.fetched) |->
                          Call("select_page", res.fetched[i], NoTest, "")]
       IN  /\ glob_result' = res
           /\ glob_pc' = "done"
           /\ calls' = calls \o fetches
           /\ pending' = [i \in 1..Len(fetches) |-> "get_soup"]
           /\ run_pc' = IF res.error THEN "crashed" ELSE "glob"
           /\ run_error' = IF res.error THEN ErrUnexpected ELSE run_error
    /\ UNCHANGED <<authVars, reqVars, formVars, laterVars, tree, regex, test_filter_regex, tests,
                   folder_index, test_index, step_index>>

\* for path, page in target_folders: for index, test in list(enumerate(tests)):
run_create_loop ==
    /\ run_pc = "glob"
    /\ Returned
    /\ IF glob_result.matching = <<>> \/ tests = <<>>
       THEN /\ run_pc' = "finished"
            /\ UNCHANGED <<folder_index, test_index, step_index>>
       ELSE /\ run_pc' = "add_test"
            /\ folder_index' = 1
            /\ test_index' = 1
            /\ step_index' = 1
    /\ UNCHANGED <<authVars, reqVars, globVars, formVars, laterVars, test_filter_regex, tests,
                   pending, calls, run_error>>

\* the interactor calls of add_test for the pair the loops are at
CurrentSteps ==
    add_test(glob_result.matching[folder_index].url, tests[test_index])

\* the workflow awaits the next call of add_test; after the last call of a test the
\* loops move on to the next test, then to the next folder
await_call(verb) ==
    /\ run_pc = "add_test"
    /\ Returned
    /\ folder_index <= Len(glob_result.matching)
    /\ CurrentSteps[step_index].verb = verb
    /\ calls' = Append(calls, CurrentSteps[step_index])
    /\ pending' = call_requests(CurrentSteps[step_index])
    /\ IF step_index < Len(CurrentSteps)
       THEN /\ step_index' = step_index + 1
            /\ UNCHANGED <<folder_index, test_index>>
       ELSE /\ step_index' = 1
            /\ IF test_index < Len(tests)
               THEN /\ test_index' = test_index + 1
                    /\ UNCHANGED folder_index
               ELSE /\ test_index' = 1
                    /\ folder_index' = folder_index + 1
    /\ UNCHANGED <<authVars, reqVars, globVars, formVars, laterVars, run_pc, test_filter_regex,
                   tests, run_error>>

await_create_test == await_call("create_test")
await_select_tab == await_call("select_tab")
await_configure_test == await_call("configure_test")
await_configure_test_scoring == await_call("configure_test_scoring")
await_add_question == await_call("add_question")
await_reorder_questions == await_call("reorder_questions")

\* the loops are through: run_create returns, main exits
run_create_returns ==
    /\ run_pc = "add_test"
    /\ Returned
    /\ folder_index > Len(glob_result.matching)
    /\ run_pc' = "finished"
    /\ UNCHANGED <<authVars, reqVars, globVars, formVars, laterVars, test_filter_regex, tests,
                   folder_index, test_index, step_index, pending, calls, run_error>>

\* a request raises and the workflow catches it, going on with the next call
run_create_goes_on ==
    /\ run_pc \in {"select_page", "glob", "add_test"}
    /\ pc[Runner] = "failed"
    /\ pc' = [pc EXCEPT ![Runner] = "done"]
    /\ pending' = <<>>
    /\ run_error' = err[Runner]
    /\ UNCHANGED <<authVars, kind, auth_id, attempts, total, round, surface, warn, err,
                   globVars, formVars, laterVars, run_pc, test_filter_regex, tests, folder_index,
                   test_index, step_index, calls>>

\* a request raises: nothing in add_test or run_create catches, main logs the error
\* (except CrawlError / except Exception) and the process exits
run_create_raises ==
    /\ run_pc \in {"select_page", "glob", "add_test"}
    /\ pc[Runner] = "failed"
    /\ run_pc' = "crashed"
    /\ run_error' = err[Runner]
    /\ UNCHANGED <<authVars, reqVars, globVars, formVars, laterVars, test_filter_regex, tests,
                   folder_index, test_index, step_index, pending, calls>>

NextCreate ==
    \/ run_create
    \/ run_create_glob
    \/ run_create_loop
    \/ await_create_test
    \/ await_select_tab
    \/ await_configure_test
    \/ await_configure_test_scoring
    \/ await_add_question
    \/ await_reorder_questions
    \/ run_create_returns
    \/ run_create_raises
    \/ interactor_request
    \/ current_auth_id(Runner)
    \/ first_attempt(Runner)
    \/ authenticate(Runner)
    \/ login_succeeds(Runner)
    \/ login_fails(Runner)
    \/ retry_once(Runner)
    \/ session_expires

SpecCreate == InitCreate /\ [][NextCreate]_vars

(***************************************************************************)
(* do_request of _post_authenticated with the default soup_succeeded, on   *)
(* one response of a logged-in session.                                    *)
(***************************************************************************)
InitAlert ==
    /\ AuthIdle
    /\ GlobIdle
    /\ FormIdle
    /\ CreateIdle
    /\ alert_page \in AlertPages
    /\ alert_status_ok \in BOOLEAN
    /\ alert_pc = "start"
    /\ alert_result = NoAlertResult
    /\ RoundIdle
    /\ GradeIdle
    /\ PageIdle

\* if request_succeeded(response): ... if soup_succeeded(my_page): return my_page
post_do_request ==
    /\ alert_pc = "start"
    /\ LET resp == [exc |-> FALSE, status_ok |-> alert_status_ok,
                    pred_ok |-> page_has_success_alert(alert_page)]
       IN  alert_result' =
               [success |-> page_has_success_alert(alert_page),
                accepted |-> request_accepted("post_authenticated", resp, TRUE),
                warn |-> request_warning("post_authenticated", resp)]
    /\ alert_pc' = "done"
    /\ UNCHANGED <<alert_page, alert_status_ok, authVars, reqVars, globVars, formVars,
                   createVars, roundVars, gradeVars, pageVars>>

NextAlert == post_do_request

SpecAlert == InitAlert /\ [][NextAlert]_vars

(***************************************************************************)
(* One question serialized and deserialized again.                         *)
(***************************************************************************)
InitRound ==
    /\ AuthIdle
    /\ GlobIdle
    /\ FormIdle
    /\ CreateIdle
    /\ AlertIdle
    /\ GradeIdle
    /\ PageIdle
    /\ round_question \in QuestionObjects
    /\ round_pc = "start"
    /\ round_serialized = NoQuestionDict
    /\ round_restored = NoQuestionObject

\* yml = question.serialize()
serialize ==
    /\ round_pc = "start"
    /\ round_serialized' = question_serialize(round_question)
    /\ round_pc' = "serialized"
    /\ UNCHANGED <<round_question, round_restored, authVars, reqVars, globVars,
                   formVars, createVars, alertVars, gradeVars, pageVars>>

\* TestQuestion.deserialize(yml)
deserialize ==
    /\ round_pc = "serialized"
    /\ round_restored' = question_deserialize(round_serialized)
    /\ round_pc' = "deserialized"
    /\ UNCHANGED <<round_question, round_serialized, authVars, reqVars, globVars,
                   formVars, createVars, alertVars, gradeVars, pageVars>>

NextRound == serialize \/ deserialize

SpecRound == InitRound /\ [][NextRound]_vars

(***************************************************************************)
(* The grading of one test written by slurp_grading_state_to_md and read   *)
(* and uploaded by upload_grading_state.                                   *)
(***************************************************************************)
InitGrade ==
    /\ AuthIdle
    /\ GlobIdle
    /\ FormIdle
    /\ CreateIdle
    /\ AlertIdle
    /\ RoundIdle
    /\ PageIdle
    /\ grade_results \in ParticipantResults
    /\ grade_pc = "start"
    /\ grade_folder = <<>>
    /\ grade_loaded = [error |-> ErrNone, value |-> <<>>]
    /\ grade_calls = <<>>
    /\ grade_error = ErrNone

notGradeVars == <<authVars, reqVars, globVars, formVars, createVars, alertVars, roundVars,
                  pageVars>>

\* for question in questions: open(output_dir / f"{question.id}.md", "w").write(...)
slurp_grading_state_to_md ==
    /\ grade_pc = "start"
    /\ LET questions == questions_of(grade_results)
       IN  grade_folder' =
               [i \in 1..Len(questions) |->
                   Item(questions[i].id \o <<".", "m", "d">>,
                        manual_grading_write_question_md(grade_results, questions[i]))]
    /\ grade_pc' = "written"
    /\ UNCHANGED <<grade_results, grade_loaded, grade_calls, grade_error, notGradeVars>>

\* upload_grading_state: results_by_mail = load_manual_grading_results_from_md(input_dir)
upload_grading_state ==
    /\ grade_pc = "written"
    /\ \E files \in Orders(grade_folder) :
           \E loaded \in {load_manual_grading_results_from_md(files)} :
               /\ grade_loaded' = loaded
               /\ grade_error' = loaded.error
               /\ grade_pc' = IF loaded.error = ErrNone THEN "parsed" ELSE "raised"
    /\ UNCHANGED <<grade_results, grade_folder, grade_calls, notGradeVars>>

GradeCall(verb, arg) == [verb |-> verb, arg |-> arg]

\* tab_page = await interactor.select_tab(test_page, TestTab.MANUAL_GRADING)
upload_select_tab ==
    /\ grade_pc = "parsed"
    /\ grade_calls' = Append(grade_calls, GradeCall("select_tab", <<"m", "a", "n", "u", "a", "l", "_", "g", "r", "a", "d", "i", "n", "g">>))
    /\ grade_pc' = "tab"
    /\ UNCHANGED <<grade_results, grade_folder, grade_loaded, grade_error, notGradeVars>>

\* tab_page = await interactor.select_page(...get_manual_grading_per_participant_url())
upload_select_page ==
    /\ grade_pc = "tab"
    /\ grade_calls' = Append(grade_calls, GradeCall("select_page", <<"/", "p", "a", "r", "t", "i", "c", "i", "p", "a", "n", "t", "s">>))
    /\ grade_pc' = "per_participant"
    /\ UNCHANGED <<grade_results, grade_folder, grade_loaded, grade_error, notGradeVars>>

\* page = await interactor.set_manual_grading_filter_show_all(tab_page)
upload_show_all ==
    /\ grade_pc = "per_participant"
    /\ grade_calls' = Append(grade_calls,
                             GradeCall("set_manual_grading_filter_show_all", <<>>))
    /\ grade_pc' = "participants"
    /\ UNCHANGED <<grade_results, grade_folder, grade_loaded, grade_error, notGradeVars>>

\* the participants the loop of upload_grading_state is through with
Uploaded ==
    Len(SelectSeq(grade_calls, LAMBDA call : call.verb = "upload_manual_grading_result"))

\* one round of the loop over page.get_manual_grading_participant_infos():
\* select_page(participant.detail_link), then upload_manual_grading_result of
\* results_by_mail[participant.email], a KeyError without such a key
upload_participant ==
    /\ grade_pc = "participants"
    /\ Uploaded < MaxParticipants
    /\ LET participant == Participant(Uploaded + 1)
           selected == Append(grade_calls,
                              GradeCall("select_page", participant.detail_link))
       IN  IF participant.email \in DictKeys(grade_loaded.value)
           THEN /\ grade_calls' =
                       Append(selected, GradeCall("upload_manual_grading_result",
                                                  participant.email))
                /\ UNCHANGED <<grade_pc, grade_error>>
           ELSE /\ grade_calls' = selected
                /\ grade_pc' = "raised"
                /\ grade_error' = ErrKey
    /\ UNCHANGED <<grade_results, grade_folder, grade_loaded, notGradeVars>>

\* the loop is through
upload_returns ==
    /\ grade_pc = "participants"
    /\ Uploaded = MaxParticipants
    /\ grade_pc' = "done"
    /\ UNCHANGED <<grade_results, grade_folder, grade_loaded, grade_calls, grade_error,
                   notGradeVars>>

NextGrade ==
    \/ slurp_grading_state_to_md
    \/ upload_grading_state
    \/ upload_select_tab
    \/ upload_select_page
    \/ upload_show_all
    \/ upload_participant
    \/ upload_returns

SpecGrade == InitGrade /\ [][NextGrade]_vars

(***************************************************************************)
(* The questions tab of one test read and reordered.                       *)
(***************************************************************************)
InitOrder ==
    /\ AuthIdle
    /\ GlobIdle
    /\ FormIdle
    /\ CreateIdle
    /\ AlertIdle
    /\ RoundIdle
    /\ GradeIdle
    /\ DesignIdle
    /\ PreviewIdle
    /\ ExtrasIdle
    /\ ConfigureIdle
    /\ order_page \in QuestionPages
    /\ title_order \in TitleOrders
    /\ order_pc = "start"
    /\ order_listing = <<>>
    /\ order_posts = <<>>
    /\ order_error = NoException

notOrderVars == <<authVars, reqVars, globVars, formVars, createVars, alertVars, roundVars,
                  gradeVars, designVars, previewVars, extrasVars, configureVars>>

\* elements = question_tab.get_test_question_listing()
test_question_listing ==
    /\ order_pc = "start"
    /\ order_pc' = "listed"
    /\ order_listing' = get_test_question_listing(order_page).result
    /\ order_error' = get_test_question_listing(order_page).exception
    /\ UNCHANGED <<order_page, title_order, order_posts, notOrderVars>>

\* await interactor.reorder_questions(tab_page, [q.title for q in test.questions])
reorder_questions ==
    /\ order_pc = "start"
    /\ order_pc' = "reordered"
    /\ order_posts' = order_posts \o reorder(order_page, title_order).posts
    /\ order_error' = reorder(order_page, title_order).exception
    /\ UNCHANGED <<order_page, title_order, order_listing, notOrderVars>>

NextOrder == test_question_listing \/ reorder_questions

SpecOrder == InitOrder /\ [][NextOrder]_vars

(***************************************************************************)
(* The blocks of one page design added to the design page of a question.   *)
(***************************************************************************)
InitDesign ==
    /\ AuthIdle
    /\ GlobIdle
    /\ FormIdle
    /\ CreateIdle
    /\ AlertIdle
    /\ RoundIdle
    /\ GradeIdle
    /\ OrderIdle
    /\ PreviewIdle
    /\ ExtrasIdle
    /\ ConfigureIdle
    /\ design_blocks \in PageDesigns
    /\ design_pc = "loop"
    /\ design_index = 0
    /\ current_id = EmptyId
    /\ design_server = <<>>
    /\ design_inserts = <<>>
    /\ design_error = NoException

notDesignVars == <<authVars, reqVars, globVars, formVars, createVars, alertVars, roundVars,
                   gradeVars, orderVars, previewVars, extrasVars, configureVars>>

\* the block the loop of design_page_add_blocks is at
NextBlockIs(class) ==
    /\ design_pc = "loop"
    /\ design_index < Len(design_blocks)
    /\ design_blocks[design_index + 1].class = class

\* the request was sent and the call raised; whether the server inserted the block
design_raises(message, server) ==
    /\ design_inserts' = Append(design_inserts, InsertRequest(design_index, current_id))
    /\ design_server' = server
    /\ design_error' = CrawlError(<<message>>)
    /\ design_pc' = "failed"
    /\ UNCHANGED <<design_blocks, design_index, current_id, notDesignVars>>

\* the request was sent and the call returned new_id: current_id = await ...
design_returns(new_id, server) ==
    /\ design_inserts' = Append(design_inserts, InsertRequest(design_index, current_id))
    /\ design_server' = server
    /\ current_id' = new_id
    /\ design_index' = design_index + 1
    /\ UNCHANGED <<design_blocks, design_pc, design_error, notDesignVars>>

\* async def design_page_add_text_block(self, edit_page, text_html, after_id): the
\* JSON insert with the new id of the client; resp["error"] raises
design_page_add_text_block ==
    /\ NextBlockIs("PageDesignBlockText")
    /\ \E new_id \in {fresh_id(design_server)} :
           \/ design_returns(new_id, server_insert(design_server, current_id,
                  Component(new_id, design_blocks[design_index + 1])))
           \/ design_raises("Adding text block failed", design_server)

\* async def design_page_add_image_block(self, edit_page, path, after_id): the form
\* POST, then the page is fetched again and the id of its last component is read
design_page_add_image_block ==
    /\ NextBlockIs("PageDesignBlockImage")
    /\ \E server \in {server_insert(design_server, current_id,
                          Component(fresh_id(design_server), design_blocks[design_index + 1]))} :
           \/ design_returns(get_test_question_design_last_component_id(server), server)
           \/ design_raises("post_authenticated failed even after authenticating", design_server)
           \/ design_raises("get_page failed even after authenticating", server)

\* async def design_page_add_code_block(self, edit_page, code, language, file_name,
\* after_id): the insert form is opened after after_id, the code is submitted and the
\* id of the last component of the page of the response is read
design_page_add_code_block ==
    /\ NextBlockIs("PageDesignBlockCode")
    /\ \E server \in {server_insert(design_server, current_id,
                          Component(fresh_id(design_server), design_blocks[design_index + 1]))} :
           \/ design_returns(get_test_question_design_last_component_id(server), server)
           \/ design_raises("post_authenticated failed even after authenticating", design_server)

\* the loop of design_page_add_blocks is through
design_page_add_blocks_returns ==
    /\ design_pc = "loop"
    /\ design_index = Len(design_blocks)
    /\ design_pc' = "done"
    /\ UNCHANGED <<design_blocks, design_index, current_id, design_server, design_inserts,
                   design_error, notDesignVars>>

NextDesign ==
    \/ design_page_add_text_block
    \/ design_page_add_image_block
    \/ design_page_add_code_block
    \/ design_page_add_blocks_returns

SpecDesign == InitDesign /\ [][NextDesign]_vars

(***************************************************************************)
(* The design blocks of one question page read.                            *)
(***************************************************************************)
InitPreview ==
    /\ AuthIdle
    /\ GlobIdle
    /\ FormIdle
    /\ CreateIdle
    /\ AlertIdle
    /\ RoundIdle
    /\ GradeIdle
    /\ OrderIdle
    /\ DesignIdle
    /\ ExtrasIdle
    /\ ConfigureIdle
    /\ preview_page \in PreviewPages
    /\ preview_pc = "start"
    /\ preview_result = NoWalkResult

\* page_design = await question_page.get_test_question_design_blocks(downloader=...)
slurp_design_blocks ==
    /\ preview_pc = "start"
    /\ preview_pc' = "done"
    /\ preview_result' = get_test_question_design_blocks(preview_page)
    /\ UNCHANGED <<preview_page, authVars, reqVars, globVars, formVars, createVars, alertVars,
                   roundVars, gradeVars, orderVars, designVars, extrasVars, configureVars>>

NextPreview == slurp_design_blocks

SpecPreview == InitPreview /\ [][NextPreview]_vars

(***************************************************************************)
(* The extra values of one form scraped.                                   *)
(***************************************************************************)
InitExtras ==
    /\ AuthIdle
    /\ GlobIdle
    /\ FormIdle
    /\ CreateIdle
    /\ AlertIdle
    /\ RoundIdle
    /\ GradeIdle
    /\ OrderIdle
    /\ DesignIdle
    /\ PreviewIdle
    /\ ConfigureIdle
    /\ extras_form \in ExtraForms
    /\ extras_pc = "start"
    /\ extras_result = {}

\* extra_values = self._get_extra_form_values(form)
scrape_extra_form_values ==
    /\ extras_pc = "start"
    /\ extras_pc' = "done"
    /\ extras_result' = _get_extra_form_values(extras_form)
    /\ UNCHANGED <<extras_form, authVars, reqVars, globVars, formVars, createVars, alertVars,
                   roundVars, gradeVars, orderVars, designVars, previewVars, configureVars>>

NextExtras == scrape_extra_form_values

SpecExtras == InitExtras /\ [][NextExtras]_vars

(***************************************************************************)
(* One run of the configure command.                                       *)
(***************************************************************************)
InitConfigure ==
    /\ AuthIdle
    /\ GlobIdle
    /\ FormIdle
    /\ CreateIdle
    /\ AlertIdle
    /\ RoundIdle
    /\ GradeIdle
    /\ OrderIdle
    /\ DesignIdle
    /\ PreviewIdle
    /\ ExtrasIdle
    /\ settings_page \in SettingsPages
    /\ args_publish \in BOOLEAN
    /\ configure_pc = "start"
    /\ configure_payload = <<>>

\* run_configure: the test read back from the settings tab, then configure_test
\* with online=args.publish is True posting data, the extras and tile_image
run_configure ==
    /\ configure_pc = "start"
    /\ configure_pc' = "posted"
    /\ configure_payload' =
           configure_test_build_form_data(
               configure_test_data(run_configure_args(
                   get_test_reconstruct_from_properties(settings_page), args_publish)),
               <<>>)
    /\ UNCHANGED <<settings_page, args_publish, authVars, reqVars, globVars, formVars,
                   createVars, alertVars, roundVars, gradeVars, orderVars, designVars,
                   previewVars, extrasVars>>

NextConfigure == run_configure

SpecConfigure == InitConfigure /\ [][NextConfigure]_vars

(***************************************************************************)
(* Claims about the action layer, checked under Spec.                      *)
(***************************************************************************)
Finished(r) == pc[r] \in {"done", "failed"}

Herd(g) ==
    \A r \in Procs :
        /\ auth_id[r] = g
        /\ round[r] = 1
        /\ pc[r] \in {"auth", "login", "retry", "done", "failed"}
        /\ (pc[r] = "done" => total[r] >= 2)
        /\ err[r] \in {ErrNone, ErrEvenAfter(kind[r])}

C3_LoginExclusive ==
    /\ Cardinality({r \in Procs : pc[r] = "login"}) <= 1
    /\ \A r \in Procs : pc[r] = "login" <=> authentication_lock = r

\* one request is logging in while another waits in authenticate for the lock
C3_Witness ==
    \E r1, r2 \in Procs :
        /\ r1 # r2
        /\ pc[r1] = "login"
        /\ pc[r2] = "auth"

\* the three failure surfaces of the claim
SurfaceClass(s) == IF s \in {"network", "non2xx"} THEN "network_or_status" ELSE s
\* what the user sees of a failed request: the error and the warning before it
Visible(r) == <<err[r], warn[r]>>

\* C4 as stated: a network/non-2xx response, a session still not logged in after the
\* retry and a 2xx response failing the success predicate end in three
\* distinguishable user-visible error outcomes.
C4_ThreeDistinctOutcomes ==
    \A r1, r2 \in Procs :
        ( /\ pc[r1] = "failed" /\ pc[r2] = "failed"
          /\ kind[r1] = kind[r2]
          /\ surface[r1] \in {"network", "non2xx", "not_logged_in", "validation"}
          /\ surface[r2] \in {"network", "non2xx", "not_logged_in", "validation"}
          /\ SurfaceClass(surface[r1]) # SurfaceClass(surface[r2]) )
        => Visible(r1) # Visible(r2)

\* C4 amended: a request whose retry is rejected ends in the one CrawlError of its
\* verb ("... failed even after authenticating") whether the retry met a non-2xx
\* response, a session that is not logged in or a failed success predicate; only a
\* network exception ends in another error. In _post_authenticated the warning of
\* the attempt tells a non-2xx response ("failed") from a 2xx response that failed
\* the predicate ("failed extended validation"), and a session that is not logged
\* in is not told apart from a failed predicate.
C4_OneErrorPerVerb ==
    \A r \in Procs :
        pc[r] = "failed" =>
            /\ surface[r] \in {"non2xx", "not_logged_in", "validation"}
                   <=> err[r] = ErrEvenAfter(kind[r])
            /\ surface[r] = "network" <=> err[r] \in {ErrIO, ErrUnexpected}
            /\ surface[r] = "login" <=> err[r] = ErrLogin
            /\ (kind[r] = "post_authenticated" /\ err[r] = ErrEvenAfter(kind[r])) =>
                   /\ warn[r] = WarnFailed <=> surface[r] = "non2xx"
                   /\ warn[r] = WarnValidation <=> surface[r] \in {"not_logged_in", "validation"}
            /\ kind[r] # "post_authenticated" => warn[r] = WarnNone

\* two failed POSTs, one on a failed predicate and one on a session that is not
\* logged in, with the same error and the same warning
C4_Witness ==
    \E r1, r2 \in Procs :
        /\ pc[r1] = "failed" /\ pc[r2] = "failed"
        /\ kind[r1] = "post_authenticated" /\ kind[r2] = "post_authenticated"
        /\ surface[r1] = "validation" /\ surface[r2] = "not_logged_in"
        /\ Visible(r1) = Visible(r2)

(***************************************************************************)
(* Claims about the glob resolver, checked under SpecGlob.                 *)
(***************************************************************************)
\* the urls of a list of matches
Urls(matches) == {matches[i].url : i \in 1..Len(matches)}

\* the nodes reached from the root by a chain of k child links
RECURSIVE NodesAtDepth(_, _)
NodesAtDepth(t, k) ==
    IF k = 0 THEN {RootUrl}
    ELSE UNION {{t[u][i].url : i \in 1..Len(t[u])} : u \in NodesAtDepth(t, k - 1)}

\* the pattern of k segments that are each "*"
Stars(k) == join_segments([i \in 1..k |-> <<"*">>])

\* C8: with a pattern of k segments that are each "*", ilias_glob_regex returns every
\* node of the remote tree at depth k.
C8_StarsMatchEveryNode ==
    \A k \in 1..MaxSegments :
        (glob_pc = "done" /\ regex = Stars(k)) =>
            /\ ~glob_result.error
            /\ Urls(glob_result.matching) = NodesAtDepth(tree, k)

PathFooHeyBar == <<<<"f","o","o">>, <<"h","e","y">>, <<"b","a","r">>>>
PathFooBazBar == <<<<"f","o","o">>, <<"b","a","z">>, <<"b","a","r">>>>
PatternFooBar == <<"f","o","o","/","b","a","r">>
PatternFooAnyBar == <<"f","o","o","/",".","*","/","b","a","r">>

\* C9 as stated: resolving "foo/bar" against ./foo/{hey,baz}/bar returns exactly two
\* leaves, with the relative paths foo/hey/bar and foo/baz/bar.
C9_FooBarTwoLeaves ==
    (glob_pc = "done" /\ tree = TreeFoo /\ regex = PatternFooBar) =>
        /\ ~glob_result.error
        /\ Len(glob_result.matching) = 2
        /\ {glob_result.matching[i].path : i \in 1..Len(glob_result.matching)}
               = {PathFooHeyBar, PathFooBazBar}

\* C9 amended: resolving "foo/.*/bar" (one segment per level) against
\* ./foo/{hey,baz}/bar returns exactly the two leaves, with the relative paths
\* foo/hey/bar and foo/baz/bar; "foo/bar" returns no leaf, because neither hey nor
\* baz, the children of foo, full-matches "bar".
C9_FooAnyBarTwoLeaves ==
    (glob_pc = "done" /\ tree = TreeFoo) =>
        /\ regex = PatternFooAnyBar =>
               /\ ~glob_result.error
               /\ glob_result.matching = <<[path |-> PathFooHeyBar, url |-> "hey_bar"],
                                           [path |-> PathFooBazBar, url |-> "baz_bar"]>>
        /\ regex = PatternFooBar =>
               /\ ~glob_result.error
               /\ glob_result.matching = <<>>

\* "foo/.*/bar" has been resolved against ./foo/{hey,baz}/bar and gave two leaves
C9_Witness ==
    /\ glob_pc = "done"
    /\ tree = TreeFoo
    /\ regex = PatternFooAnyBar
    /\ Len(glob_result.matching) = 2

\* C10: the list ilias_glob_regex returns never holds two entries with the same page
\* url, and the url of every matching location occurs in it exactly once, also when
\* the hierarchy reaches one node through several links.
C10_OneEntryPerUrl ==
    (glob_pc = "done" /\ ~glob_result.error) =>
        /\ \A i, j \in 1..Len(glob_result.matching) :
               glob_result.matching[i].url = glob_result.matching[j].url => i = j
        /\ Urls(glob_result.matching) = Urls(glob_result.found)
        /\ \A i \in 1..Len(glob_result.matching) :
               \E j \in 1..Len(glob_result.found) :
                   glob_result.matching[i] = glob_result.found[j]

\* a node was matched through several links and is returned once
C10_Witness ==
    /\ glob_pc = "done"
    /\ ~glob_result.error
    /\ tree = TreeAlias
    /\ glob_result.matching # <<>>
    /\ Len(glob_result.found) > Len(glob_result.matching)

(***************************************************************************)
(* Claims about the form payloads, checked under SpecForm.                 *)
(***************************************************************************)
\* what the caller set explicitly, and the extras scraped from the page
ExplicitValues ==
    IF form_call.verb = "configure_test"
    THEN configure_test_data(form_call.config)
    ELSE add_question_options(form_call.question)
ScrapedExtras ==
    IF form_call.verb = "configure_test"
    THEN get_test_settings_change_data(form_page)
    ELSE get_test_question_finalize_data(form_page)
\* a value as a part of the payload: a Path is sent as an empty file part
AsPart(v) == IF v.type = "path" THEN EmptyFile ELSE v
PartsNamed(k) == {payload[i].value : i \in {j \in 1..Len(payload) : payload[j].name = k}}

CreationVerbs == {"create_test", "configure_test", "add_question", "reorder_questions"}
CreationCalls == SelectSeq(calls, LAMBDA call : call.verb \in CreationVerbs)
CallsOf(verb) == {i \in 1..Len(calls) : calls[i].verb = verb}

\* the tests the filter selects and the folders the pattern resolves to
SelectedTests ==
    SelectSeq(SpecTests, LAMBDA test : filter_with_regex(test.title, test_filter_regex))
MatchedFolders == glob_result.matching

\* one sequence: create_test, two configure_test, an add_question per question in
\* the order of the spec, one reorder_questions
ExpectedSequence(folder, test) ==
    << Call("create_test", folder, test.title, ""),
       Call("configure_test", folder, test.title, ""),
       Call("configure_test", folder, test.title, "") >>
    \o [j \in 1..Len(test.questions) |->
           Call("add_question", folder, test.title, test.questions[j].title)]
    \o << Call("reorder_questions", folder, test.title, "") >>

\* the sequences of every test for one folder, and of every folder
RECURSIVE ExpectedForFolder(_, _)
ExpectedForFolder(folder, some_tests) ==
    IF some_tests = <<>> THEN <<>>
    ELSE ExpectedSequence(folder, Head(some_tests))
         \o ExpectedForFolder(folder, Tail(some_tests))
RECURSIVE ExpectedForFolders(_, _)
ExpectedForFolders(folders, some_tests) ==
    IF folders = <<>> THEN <<>>
    ELSE ExpectedForFolder(Head(folders).url, some_tests)
         \o ExpectedForFolders(Tail(folders), some_tests)

IsPrefix(p, q) == Len(p) <= Len(q) /\ SubSeq(q, 1, Len(p)) = p

\* C5: a run_create that finishes has performed F*T add_test sequences, folder by
\* folder and test by test, each one create_test, two configure_test, one
\* add_question per question in spec order and one reorder_questions at the end
C5_CreateSequences ==
    run_pc = "finished" =>
        /\ CreationCalls = ExpectedForFolders(MatchedFolders, SelectedTests)
        /\ Cardinality(CallsOf("create_test")) = Len(MatchedFolders) * Len(SelectedTests)
        /\ Cardinality(CallsOf("reorder_questions")) = Cardinality(CallsOf("create_test"))
        /\ Cardinality(CallsOf("configure_test")) = 2 * Cardinality(CallsOf("create_test"))

\* the example: one selected test with MaxQuestions questions, two matched folders,
\* no fault: two sequences, 2 * MaxQuestions question-adds
C5_Witness ==
    /\ run_pc = "finished"
    /\ faults = 0
    /\ Len(MatchedFolders) = 2
    /\ Len(SelectedTests) = 1
    /\ Len(SelectedTests[1].questions) = MaxQuestions
    /\ Cardinality(CallsOf("create_test")) = 2
    /\ Cardinality(CallsOf("add_question")) = 2 * MaxQuestions

\* what holds of a run that ended with an error, the number of HTTP attempts of
\* the failing request left aside: main has logged the error of the request, the
\* calls made are those of a failure-free run up to the failing one (nothing that
\* deletes or compensates), and from then on no call is made and no request sent
RunEndedWithError ==
    /\ run_pc = "crashed"
    /\ IsPrefix(CreationCalls, ExpectedForFolders(MatchedFolders, SelectedTests))
    /\ pc[Runner] = "failed" => run_error = err[Runner]
StaysEnded ==
    /\ calls' = calls
    /\ total' = total
    /\ request_count' = request_count
    /\ run_pc' = run_pc

C11_DefaultTargetsRoot ==
    (glob_pc = "done" /\ regex \in {<<>>, DefaultReplicate}) =>
        /\ ~glob_result.error
        /\ glob_result.matching = <<[path |-> <<>>, url |-> RootUrl]>>
        /\ glob_result.fetched = <<>>

(***************************************************************************)
(* Claims about the alerts of a page, checked under SpecAlert.             *)
(***************************************************************************)
\* the elements of the page with a role of alert or status and the given class
AlertsClassed(word) ==
    {i \in 1..Len(alert_page) :
        /\ alert_page[i].role \in {"alert", "status"}
        /\ word \in alert_page[i].class}

\* C12: page_has_success_alert is true exactly when the page has an alert/status
\* element classed alert-success and none classed alert-danger; on a page with a
\* danger alert the default success predicate of a POST fails: do_request gives
\* no page and warns of the failed validation
C12_DangerOverridesSuccess ==
    alert_pc = "done" =>
        /\ alert_result.success <=>
               (AlertsClassed("alert-success") # {} /\ AlertsClassed("alert-danger") = {})
        /\ AlertsClassed("alert-danger") # {} =>
               /\ ~alert_result.accepted
               /\ alert_status_ok => alert_result.warn = WarnValidation

\* a 2xx response whose page has a success alert and a danger alert
C12_Witness ==
    /\ alert_pc = "done"
    /\ alert_status_ok
    /\ AlertsClassed("alert-success") # {}
    /\ AlertsClassed("alert-danger") # {}
    /\ ~alert_result.accepted

(***************************************************************************)
(* Claims about serialize / deserialize, checked under SpecRound.          *)
(***************************************************************************)
\* C13: for a question of any of the four classes with any page design,
\* TestQuestion.deserialize(q.serialize()) equals q in every field, the fields of
\* every block of the page design included
C13_QuestionRoundTrip ==
    round_pc = "deserialized" => round_restored = round_question


(***************************************************************************)
(* Claims about the grading in markdown, checked under SpecGrade.          *)
(***************************************************************************)
\* the import returned: upload_grading_state is past its first statement
Imported == grade_pc \in {"parsed", "tab", "per_participant", "participants", "done"}
       \/ (grade_pc = "raised" /\ grade_error = ErrKey)

\* a text without the whitespace around it, no feedback taken as the empty one
NormalAnswer(answer) == [answer EXCEPT !.text = strip(@)]
NormalFeedback(feedback) ==
    IF feedback = {} THEN <<>> ELSE strip(CHOOSE text \in feedback : TRUE)

\* the (participant, question, points, answer, feedback) of the answers of a result
GradingTuples(result) ==
    { [participant |-> result.participant.email,
       name |-> <<result.participant.last_name, result.participant.first_name>>,
       question |-> result.answers[i].question,
       points |-> result.answers[i].points,
       answer |-> NormalAnswer(result.answers[i].answer),
       feedback |-> NormalFeedback(result.answers[i].feedback)] :
      i \in 1..Len(result.answers) }
SlurpedTuples == UNION {GradingTuples(grade_results[i]) : i \in 1..Len(grade_results)}
LoadedTuples ==
    UNION {GradingTuples(grade_loaded.value[i].value) : i \in 1..Len(grade_loaded.value)}

\* C14: the results written with manual_grading_write_question_md, one document
\* per question, and read back with load_manual_grading_results_from_md are the
\* same (participant, question, points, answer, feedback) tuples up to the
\* whitespace around the texts.
C14_GradingRoundTrip ==
    Imported => LoadedTuples = SlurpedTuples


\* the numbers of answers of the participants the documents hold: those of the
\* slurped participants with an answer
AnswerCounts ==
    {Len(grade_results[i].answers) : i \in {j \in 1..Len(grade_results) :
                                              grade_results[j].answers # <<>>}}
\* a record of the documents has more points than its question gives
SomeExceeds ==
    \E i \in 1..Len(grade_results) : \E k \in 1..Len(grade_results[i].answers) :
        grade_results[i].answers[k].points > grade_results[i].answers[k].question.max_points
\* upload_grading_state is past load_manual_grading_results_from_md
Loaded == grade_pc \notin {"start", "written"}

\* C15: load_manual_grading_results_from_md raises a CrawlError whenever the
\* participants of the question files do not all have the same number of answers
\* (the error of the answer counts unless a record with too many points raised
\* first), and it returns only when all the numbers are equal.
C15_AsymmetryRaises ==
    /\ (Loaded /\ Cardinality(AnswerCounts) > 1) =>
           /\ ~Imported
           /\ grade_pc = "raised"
           /\ grade_error \in {ErrCounts, ErrExceeds}
           /\ ~SomeExceeds => grade_error = ErrCounts
    /\ Imported =>
           /\ Cardinality(AnswerCounts) = 1
           /\ Cardinality({Len(grade_loaded.value[i].value.answers) :
                              i \in 1..Len(grade_loaded.value)}) = 1

\* one participant with two answers and one with one: the import raised for it
C15_Witness ==
    /\ grade_pc = "raised"
    /\ grade_error = ErrCounts
    /\ AnswerCounts = {1, 2}
    /\ grade_calls = <<>>


\* C16: a record with more points than its question's max_points makes the import
\* raise the CrawlError of the exceeded points, no record is kept with other
\* points in its place, and upload_grading_state, which imports first, makes no
\* interactor call at all for such a folder.
C16_ExceedingPointsRejectedBeforeUpload ==
    SomeExceeds =>
        /\ grade_calls = <<>>
        /\ grade_loaded.value = <<>>
        /\ grade_pc \in {"start", "written", "raised"}
        /\ Loaded => (grade_pc = "raised" /\ grade_error = ErrExceeds)

\* 3.0 points for a question of 2.0: the import raised and nothing was requested
C16_Witness ==
    /\ SomeExceeds
    /\ grade_pc = "raised"
    /\ grade_error = ErrExceeds
    /\ grade_folder # <<>>
    /\ grade_calls = <<>>


(***************************************************************************)
(* Claims about the authentication generation and the cookies, checked     *)
(* under Spec.                                                             *)
(***************************************************************************)
\* request r leaves authenticate's test of the ids in this step
LeavesAuth(r) == pc[r] = "auth" /\ pc'[r] # "auth"

\* C17: authenticate(g) starts the login flow if and only if the generation is
\* still g when it has the lock; when the generation has advanced it returns to
\* the retry at once and leaves the generation, the cookie file, the count of
\* login flows and the lock as they are.
C17_LoginOnlyForCurrentGeneration ==
    [][\A r \in Procs :
          LeavesAuth(r) =>
              /\ authentication_lock = NoProc
              /\ pc'[r] = "login" <=> auth_id[r] = authentication_id
              /\ pc'[r] = "login" => (logins' = logins + 1 /\ authentication_lock' = r)
              /\ auth_id[r] # authentication_id =>
                     /\ pc'[r] = "retry"
                     /\ authentication_id' = authentication_id
                     /\ cookie_file' = cookie_file
                     /\ cookie_saves' = cookie_saves
                     /\ logins' = logins
                     /\ authentication_lock' = authentication_lock]_vars

\* two requests captured generation 0, one of them logged in and the other came
\* to its retry without a login flow of its own
C17_Witness ==
    \E r1, r2 \in Procs :
        /\ r1 # r2
        /\ auth_id[r1] = 0 /\ auth_id[r2] = 0
        /\ pc[r1] = "retry" /\ pc[r2] = "retry"
        /\ round[r1] = 1 /\ round[r2] = 1
        /\ authentication_id = 1
        /\ logins = 1

\* C18 as stated: capturing the generation never waits for a network operation,
\* not even for a login flow another request has in progress.
C18_CaptureNeverWaits ==
    \A r \in Procs : pc[r] = "start" => ENABLED current_auth_id(r)

\* C18 amended: _current_auth_id sends nothing itself and completes at once while
\* no login flow is in progress; while another request is inside the login flow of
\* authenticate, which holds the lock over its network operations, the capture
\* waits until that flow has ended.
C18_CaptureWaitsOnlyForLogin ==
    \A r \in Procs :
        pc[r] = "start" =>
            /\ (ENABLED current_auth_id(r)) <=> (\A other \in Procs : pc[other] # "login")
            /\ (ENABLED current_auth_id(r)) <=> authentication_lock = NoProc

\* a request about to capture the generation while another one is logging in
C18_Witness ==
    \E r1, r2 \in Procs :
        /\ pc[r1] = "start"
        /\ pc[r2] = "login"
        /\ authentication_lock = r2
        /\ ~ENABLED current_auth_id(r1)

\* request r ends its login flow in this step: with success, or with an exception
LoginReturns(r) == pc[r] = "login" /\ pc'[r] = "retry"
LoginRaises(r) == pc[r] = "login" /\ pc'[r] \in {"start", "failed"}

\* C19: the generation is 0 at construction, never decreases, and grows by exactly
\* one in the step of a successful login and in no other step; a login flow that
\* raises leaves the generation as it is and releases the lock.
C19_GenerationCountsLogins ==
    /\ authentication_id = 0
    /\ [][/\ authentication_id' \in {authentication_id, authentication_id + 1}
          /\ authentication_id' = authentication_id + 1
                 <=> \E r \in Procs : LoginReturns(r)
          /\ \A r \in Procs :
                 LoginRaises(r) => /\ authentication_id' = authentication_id
                                   /\ authentication_lock = r
                                   /\ authentication_lock' = NoProc]_vars

\* one login flow raised, a later one succeeded: generation 1 after two flows
C19_Witness ==
    /\ authentication_id = 1
    /\ logins = 2
    /\ authentication_lock = NoProc
    /\ \E r \in Procs : surface[r] \in {"login", "network"} /\ pc[r] \in {"start", "failed"}

\* C20: the cookie file holds the cookies of the current generation in every state
\* in which the lock is free or a request can read the generation, so a successful
\* login has saved them before it releases the lock; _save_cookies has run once
\* for each successful login and once more when the interactor is shut down.
C20_CookiesSavedBeforeRelease ==
    /\ cookie_file = authentication_id
    /\ cookie_saves = authentication_id + (IF closed THEN 1 ELSE 0)
    /\ \A r \in Procs : pc[r] \in {"attempt", "retry"} => auth_id[r] <= cookie_file

\* the interactor was shut down after a login: two saves, the file of generation 1
C20_Witness ==
    /\ closed
    /\ authentication_id = 1
    /\ cookie_file = 1
    /\ cookie_saves = 2
    /\ authentication_lock = NoProc

(***************************************************************************)
(* C21: which pages the glob resolver fetches.                             *)
(***************************************************************************)
\* the segments of a pattern, none for the empty pattern
SegmentsOf(pattern) == IF pattern = <<>> THEN <<>> ELSE split(pattern, <<"/">>)

\* the positions a child can have in a child list of the tree
Links(t) == UNION {1..Len(t[u]) : u \in DOMAIN t}

\* a chain of child links from node, given by the positions of the children: the
\* name of every child of the chain full-matches the segment of its level
RECURSIVE MatchingChain(_, _, _, _)
MatchingChain(t, node, chain, segs) ==
    \/ chain = <<>>
    \/ /\ Head(chain) <= Len(t[node])
       /\ ~re_error(Head(segs))
       /\ re_fullmatch(Head(segs), t[node][Head(chain)].name)
       /\ MatchingChain(t, t[node][Head(chain)].url, Tail(chain), Tail(segs))

\* the node a chain of child links from node ends at
RECURSIVE ChainEnd(_, _, _)
ChainEnd(t, node, chain) ==
    IF chain = <<>> THEN node ELSE ChainEnd(t, t[node][Head(chain)].url, Tail(chain))

\* the non-empty chains from the root whose children match their segments
MatchingChains(t, segs) ==
    {chain \in UNION {[1..j -> Links(t)] : j \in 1..Len(segs)} :
        MatchingChain(t, RootUrl, chain, segs)}

\* how often select_page fetched the page of url
TimesFetched(url) ==
    Cardinality({i \in 1..Len(glob_result.fetched) : glob_result.fetched[i] = url})

\* C21: a child's page is fetched only if its name full-matches the segment of its
\* level and all its ancestors matched theirs: every fetch of a page belongs to a
\* chain of full-matching children from the root that ends at it, and a run that
\* raises nothing fetched each such chain's end exactly once; a name that only
\* contains a match is not kept and nothing below it is fetched
C21_FetchOnlyFullMatchingChains ==
    glob_pc = "done" =>
        \A url \in DOMAIN tree :
            LET ends == {chain \in MatchingChains(tree, SegmentsOf(regex)) :
                            ChainEnd(tree, RootUrl, chain) = url}
            IN  /\ TimesFetched(url) <= Cardinality(ends)
                /\ ~glob_result.error => TimesFetched(url) = Cardinality(ends)

\* "a/a" was resolved against the hierarchy with links back: below the root, a is
\* fetched and foo is not; below a, a is fetched and neither b nor bar, which
\* contains an "a", is
C21_Witness ==
    /\ glob_pc = "done"
    /\ tree = TreeCycle
    /\ regex = <<"a", "/", "a">>
    /\ ~glob_result.error
    /\ glob_result.fetched = <<"u1", RootUrl>>
    /\ TimesFetched("u2") = 0

(***************************************************************************)
(* Claims about the questions tab, checked under SpecOrder.                *)
(***************************************************************************)
\* the rows of the table that stand for a question: more than one cell
QuestionRowsOf(page) == SelectSeq(page.rows, LAMBDA row : Len(row.tds) > 1)

\* the table was read without an error
Listable(page) ==
    /\ page.url = QuestionsUrl
    /\ page.table
    /\ \A i \in 1..Len(page.rows) : page.rows[i].a.href \in {"q1", "q2", "q3", "none", "q5"}

\* the title and the question id a question row shows
ShownTitle(row) ==
    CASE row.a.href = "q1" -> <<"A">> [] row.a.href = "q2" -> <<"B">> [] row.a.href = "q3" -> <<"A">>
ShownId(row) ==
    CASE row.a.href = "q1" -> <<"1">> [] row.a.href = "q2" -> <<"2">> [] row.a.href = "q3" -> <<"3">>

UniqueTitles(page) ==
    \A i, j \in 1..Len(QuestionRowsOf(page)) :
        ShownTitle(QuestionRowsOf(page)[i]) = ShownTitle(QuestionRowsOf(page)[j]) => i = j

\* the question ids of the rows that show the title
IdsOfTitle(page, title) ==
    {ShownId(QuestionRowsOf(page)[i]) :
        i \in {j \in 1..Len(QuestionRowsOf(page)) : ShownTitle(QuestionRowsOf(page)[j]) = title}}

\* the title of the order is the title of a question of the table
Scraped(page, title) == IdsOfTitle(page, title) # {}

ShownTitleText(row) ==
    CASE row.a.href = "q1" -> <<"A">> [] row.a.href = "q2" -> <<"B">> [] row.a.href = "q3" -> <<"A">>
      [] row.a.href = "q4" -> <<"C">> [] row.a.href = "q5" -> <<"C">> [] row.a.href = "none" -> <<>>
ShownIdText(row) ==
    CASE row.a.href = "q1" -> <<"1">> [] row.a.href = "q2" -> <<" ","2">> [] row.a.href = "q3" -> <<"3">>
      [] row.a.href = "q4" -> <<"4">> [] row.a.href = "q5" -> <<"5">> [] row.a.href = "none" -> <<"0">>

\* a row has a cell whose name starts with "order["
HasOrderCell(row) == \E i \in 1..Len(row.tds) : row.tds[i] = OrderName(ShownIdText(row))

\* the text of the .alert elements a reader of the page sees
VisibleAlertText(alerts) ==
    CASE alerts = <<>> -> <<>>
      [] alerts = <<<<" ","n","o","\n">>>> -> <<"n","o">>
      [] alerts = <<<<"n","o">>, <<"!">>>> -> <<"n","o","!">>

\* text occurs in message
Carries(message, text) ==
    \E i \in 0..(Len(message) - Len(text)) : SubSeq(message, i + 1, i + Len(text)) = text

\* the (title, URL) pairs of rows, in row order
PairsOf(page, rows) ==
    [i \in 1..Len(rows) |-> <<ShownTitleText(rows[i]), [base |-> page.url, href |-> rows[i].a.href]>>]

ServerBlocks == [i \in 1..Len(design_server) |-> design_server[i].block]

FirstChild(children, from, Test(_)) ==
    IF \E i \in from..Len(children) : Test(children[i])
    THEN CHOOSE i \in from..Len(children) :
             Test(children[i]) /\ \A j \in from..(i - 1) : ~Test(children[j])
    ELSE Len(children) + 1

Range(seq) == {seq[i] : i \in 1..Len(seq)}

IsTitleMarker(child) == child.tag /\ "ilc_page_title_PageTitle" \in Range(child.classes)
IsQuestionMarker(child) == child.tag /\ "ilc_question_Standard" \in Range(child.classes)

\* the block a child of the form is classified as, none for a child of no known class
ClassifiedAs(child) ==
    IF ~child.tag \/ IsTitleMarker(child) THEN "none"
    ELSE IF "ilc_Paragraph" \in Range(child.classes) THEN "PageDesignBlockText"
    ELSE IF "ilc_Code" \in Range(child.classes) THEN "PageDesignBlockCode"
    ELSE IF child.media THEN "PageDesignBlockImage"
    ELSE "none"

\* the children strictly after the title marker and strictly before the first
\* child after it that carries the question-preview marker
BetweenMarkers(children) ==
    (FirstChild(children, 1, IsTitleMarker) + 1)
        ..(FirstChild(children, FirstChild(children, 1, IsTitleMarker) + 1, IsQuestionMarker) - 1)

\* C25: get_test_question_design_blocks returns, in sibling order, exactly the blocks
\* classified from the siblings strictly after the title marker and strictly before
\* the first sibling carrying the question-preview marker; no sibling at or after
\* that marker contributes a block or triggers a download
C25_BlocksBetweenMarkers ==
    (preview_pc = "done" /\ preview_page.form) =>
        /\ preview_result.exception = NoException
        /\ \A k \in 1..Len(preview_result.blocks) :
               /\ preview_result.blocks[k].child \in BetweenMarkers(preview_page.children)
               /\ preview_result.blocks[k].class =
                      ClassifiedAs(preview_page.children[preview_result.blocks[k].child])
               /\ k > 1 => preview_result.blocks[k - 1].child < preview_result.blocks[k].child
        /\ \A i \in BetweenMarkers(preview_page.children) :
               ClassifiedAs(preview_page.children[i]) # "none" =>
                   \E k \in 1..Len(preview_result.blocks) : preview_result.blocks[k].child = i
        /\ \A k \in 1..Len(preview_result.downloads) :
               preview_result.downloads[k] \in BetweenMarkers(preview_page.children)

(***************************************************************************)
(* C26: the set of ExtraFormData of a form, checked under SpecExtras.      *)
(***************************************************************************)
\* the element carries the attribute disabled
MarkedDisabled(element) == element.disabled # NoAttr

\* C26: the set scraped from a form holds at most one entry per field name, and
\* every field that is marked disabled is represented with an empty value and the
\* disabled flag set, also when it is required or a select with a selected option
C26_DisabledFieldsEchoedEmpty ==
    extras_pc = "done" =>
        /\ \A d, e \in extras_result : d.name = e.name => d = e
        /\ \A i \in 1..Len(extras_form) :
               MarkedDisabled(extras_form[i]) =>
                   ExtraFormData(extras_form[i].name, "", TRUE) \in extras_result

(***************************************************************************)
(* C27 and C28: the retry of a request, checked under Spec.                *)
(***************************************************************************)
\* C27: a request that is about to send its retry, or has sent it, captured a
\* generation strictly smaller than the current one: a login has completed since
\* the capture; a request whose login flow failed with a login error has sent its
\* first attempt only
C27_RetryOnlyAfterLogin ==
    \A r \in Procs :
        /\ pc[r] = "retry" => authentication_id > auth_id[r]
        /\ attempts[r] >= 2 => authentication_id > auth_id[r]
        /\ pc[r] = "login" => authentication_id = auth_id[r] /\ attempts[r] = 1
        /\ err[r] = ErrLogin => pc[r] = "failed" /\ attempts[r] = 1

\* a request was rejected, logged in itself and had its retry accepted
C27_Witness ==
    \E r \in Procs :
        /\ pc[r] = "done"
        /\ attempts[r] = 2
        /\ logins = 1
        /\ authentication_id = auth_id[r] + 1

\* the first response of the POST of r was rejected by request_succeeded or by
\* soup_succeeded and r has sent nothing since
FirstPostRejected(r) ==
    /\ kind[r] = "post_authenticated"
    /\ attempts[r] = 1
    /\ warn[r] # WarnNone
    /\ surface[r] \in {"non2xx", "not_logged_in", "validation"}

\* what C28 says of the handling of a rejected first response: authenticate is
\* called with the captured generation (the request waits for the lock, logs in or
\* is about to post again), it logs in for real only when the generation is
\* unchanged, and the second POST is sent after it
HandledLikeRejection(r) ==
    /\ FirstPostRejected(r) => pc[r] \in {"auth", "login", "retry"}
    /\ pc[r] = "login" => auth_id[r] = authentication_id
    /\ attempts[r] = 2 => authentication_id > auth_id[r]
    /\ Finished(r) => total[r] >= 1

CurrentTitle == _norm(get_value(settings_page[LabelTitle], <<>>))
CurrentDescription == _norm(settings_page[LabelDescription].contents)
CurrentIntroText == _norm(settings_page[LabelIntro].contents)
CurrentStartingTime == format_time(_parse_time(settings_page[LabelStart]))
CurrentEndingTime == format_time(_parse_time(settings_page[LabelEnd]))
CurrentNumberOfTries ==
    ToString(int(get_value(settings_page[LabelTries], <<"1","0","0">>)))

\* the text configure_test posted under a key
Posted(key) == DictGet(configure_payload, key).text

\* C29: publishing or unpublishing with run_configure changes only the online
\* flag: the title, description, intro text, start and end times and number of
\* tries that configure_test submits are the test's current values, each read
\* back from its own field of the settings page.
C29_ConfigureKeepsSettings ==
    configure_pc = "posted" =>
        /\ Posted("online") = (IF args_publish THEN "1" ELSE "0")
        /\ Posted("title") = CurrentTitle
        /\ Posted("description") = CurrentDescription
        /\ Posted("introduction") = CurrentIntroText
        /\ Posted("starting_time") = CurrentStartingTime
        /\ Posted("ending_time") = CurrentEndingTime
        /\ Posted("nr_of_tries") = CurrentNumberOfTries

(***************************************************************************)
(* C30: what the glob resolver returns for a pattern of k segments.        *)
(***************************************************************************)
\* the chains of exactly one child link per segment, every name full-matching
FullChains(t, segs) ==
    {chain \in [1..Len(segs) -> Links(t)] : MatchingChain(t, RootUrl, chain, segs)}

\* the sanitized names of the children of a chain of child links from node
RECURSIVE ChainNames(_, _, _)
ChainNames(t, node, chain) ==
    IF chain = <<>> THEN <<>>
    ELSE <<sanitize_path_name(t[node][Head(chain)].name)>>
         \o ChainNames(t, t[node][Head(chain)].url, Tail(chain))

\* PurePath(".").joinpath(*names): the parts of the path made of the names
RECURSIVE PurePathOf(_)
PurePathOf(names) ==
    IF names = <<>> THEN <<>>
    ELSE path_join(PurePathOf(SubSeq(names, 1, Len(names) - 1)), names[Len(names)])

\* the entries of the list ilias_glob_regex returned
ReturnedEntries == {glob_result.matching[i] : i \in 1..Len(glob_result.matching)}

\* a location is returned if and only if a chain of k full-matching children
\* reaches it; a run that raised re.error had no such chain to return
ReturnedIffFullChain ==
    /\ {m.url : m \in ReturnedEntries}
         = {ChainEnd(tree, RootUrl, chain) : chain \in FullChains(tree, SegmentsOf(regex))}
    /\ glob_result.error => FullChains(tree, SegmentsOf(regex)) = {}

\* no part of a returned path holds a path separator
PartsWithoutSeparators ==
    \A m \in ReturnedEntries : \A i \in 1..Len(m.path) : \A j \in 1..Len(m.path[i]) :
        m.path[i][j] \notin {"/", "\\"}

\* every page fetched is the end of a chain of at most k full-matching children,
\* so the walk ends after at most k levels whatever links the hierarchy has
DescentBounded ==
    Len(glob_result.fetched) <= Cardinality(MatchingChains(tree, SegmentsOf(regex)))

\* C30 as stated: for a pattern of k >= 1 non-empty segments a location is
\* returned iff a chain of k children whose names full-match the segments reaches
\* it, every result lies at depth k with the k sanitized names of such a chain as
\* its relative path, without "/" or "\" inside a segment, and the walk descends
\* at most k levels also through alias links and cycles.
C30_PathIsChainOfSanitizedNames ==
    (glob_pc = "done" /\ regex # <<>>) =>
        /\ ReturnedIffFullChain
        /\ \A m \in ReturnedEntries :
               \E chain \in FullChains(tree, SegmentsOf(regex)) :
                   /\ ChainEnd(tree, RootUrl, chain) = m.url
                   /\ m.path = ChainNames(tree, RootUrl, chain)
        /\ PartsWithoutSeparators
        /\ DescentBounded

\* C30, amended: as above, but the relative path is the PurePath joined from the
\* sanitized names of the chain, in which a name that sanitizes to "." or to the
\* empty string leaves no part, so that such a path has fewer than k parts.
C30_PathIsPurePathOfSanitizedNames ==
    (glob_pc = "done" /\ regex # <<>>) =>
        /\ ReturnedIffFullChain
        /\ \A m \in ReturnedEntries :
               \E chain \in FullChains(tree, SegmentsOf(regex)) :
                   /\ ChainEnd(tree, RootUrl, chain) = m.url
                   /\ m.path = PurePathOf(ChainNames(tree, RootUrl, chain))
        /\ PartsWithoutSeparators
        /\ DescentBounded

\* "a/a/a" was resolved against the hierarchy whose folder a links back to the
\* root: the walk went root, a, root, a and returned a at depth three
C30_Witness ==
    /\ glob_pc = "done"
    /\ tree = TreeCycle
    /\ regex = <<"a", "/", "a", "/", "a">>
    /\ glob_result.fetched = <<"u1", RootUrl, "u1">>
    /\ glob_result.matching = <<[path |-> <<<<"a">>, <<"a">>, <<"a">>>>, url |-> "u1"]>>

====
